---- MODULE Spec2Model ----
(***************************************************************************)
(* Context memory and attention assembly of MateBot: the reference store   *)
(* (external_memory.py), the failure ledger (failure_memory.py) and the    *)
(* prompt assembler with its prompt cache (attention_manager.py).          *)
(*                                                                         *)
(* Text is modelled as a sequence of one-character strings, so that        *)
(* trimming, splitting, searching and slicing are computed the way the     *)
(* Python code computes them.  CJK literals of the source are written with *)
(* the same number of ASCII stand-in characters.                           *)
(***************************************************************************)
EXTENDS Integers, Sequences, FiniteSets, TLC

VARIABLES now, index, files, dirs, hashed, refs, memory, mem_next, calls,
          session_task_ids, task_goals, cache, cache_puts, cache_expired,
          cache_stats, inflight, cutoffs, bridge, ret

storeVars == <<index, files, dirs, hashed, refs>>

ledgerVars == <<memory, mem_next, calls>>

\* the sessions of the prompt assembler and the prompt cache; task_goals,
\* cache_puts and cache_expired are history: the goal of the latest
\* create_task of a session, the latest store_prompt of a key, and the keys
\* a lookup has found expired since
promptVars ==
    <<session_task_ids, task_goals, cache, cache_puts, cache_expired, cache_stats>>

\* the store operations in flight when several run at once, each with the
\* index it has read; cutoffs is history: the cutoffs of the sweeps so far
raceVars == <<inflight, cutoffs>>

vars ==
    <<now, index, files, dirs, hashed, refs, memory, mem_next, calls,
      session_task_ids, task_goals, cache, cache_puts, cache_expired,
      cache_stats, inflight, cutoffs, bridge, ret>>

(***************************************************************************)
(* Bounds of the model.                                                    *)
(***************************************************************************)
MaxClock == 1
MaxStores == 2

MaxCalls == 2

\* task documents, cache lookups, and failures recorded ahead of a build
MaxTasks == 1

MaxLookups == 3

MaxRecorded == 1

(***************************************************************************)
(* Python string primitives.                                               *)
(***************************************************************************)
Rep(c, n) == [i \in 1..n |-> c]

MinOf(S) == CHOOSE x \in S : \A y \in S : x <= y

\* s[:n]
Take(s, n) == SubSeq(s, 1, IF Len(s) < n THEN Len(s) ELSE n)

\* s[n:]
Drop(s, n) == SubSeq(s, n + 1, Len(s))

IsSpace(c) == c \in {" ", "\n", "\t"}

RECURSIVE WsRun(_, _)
\* the number of whitespace characters of s from position p on
WsRun(s, p) == IF p > Len(s) \/ ~IsSpace(s[p]) THEN 0 ELSE 1 + WsRun(s, p + 1)

RECURSIVE WsRunBack(_, _)
\* the number of whitespace characters of s from position p backwards
WsRunBack(s, p) == IF p < 1 \/ ~IsSpace(s[p]) THEN 0 ELSE 1 + WsRunBack(s, p - 1)

\* str.strip()
Strip(s) ==
    LET lead == WsRun(s, 1)
    IN IF lead = Len(s) THEN <<>>
       ELSE SubSeq(s, lead + 1, Len(s) - WsRunBack(s, Len(s)))

\* str.startswith(p)
StartsWith(s, p) == Len(s) >= Len(p) /\ SubSeq(s, 1, Len(p)) = p

\* the positions from position from on at which sub occurs in s
Occurrences(s, sub, from) ==
    {i \in from..(Len(s) - Len(sub) + 1) :
        s[i] = sub[1] /\ (Len(sub) = 1 \/ SubSeq(s, i, i + Len(sub) - 1) = sub)}

\* str.find(sub, from) for a non-empty sub: first position >= from, 0 when
\* there is none
Find(s, sub, from) ==
    LET found == Occurrences(s, sub, from)
    IN IF found = {} THEN 0 ELSE MinOf(found)

\* sub in s
Contains(s, sub) == Find(s, sub, 1) # 0

\* str.split(sep, 2): at most three parts, cut at the first two separators
Split2(s, sep) ==
    LET p1 == Find(s, sep, 1)
    IN IF p1 = 0 THEN <<s>>
       ELSE LET rest == Drop(s, p1 + Len(sep) - 1)
                p2 == Find(rest, sep, 1)
            IN IF p2 = 0 THEN <<SubSeq(s, 1, p1 - 1), rest>>
               ELSE <<SubSeq(s, 1, p1 - 1), SubSeq(rest, 1, p2 - 1),
                      Drop(rest, p2 + Len(sep) - 1)>>

RECURSIVE SplitAt(_, _, _, _)
\* the parts of s from position from on, cut at the first of the occurrences
\* at of a separator of width w that begins at or after from, and so on
SplitAt(s, w, at, from) ==
    LET ahead == {p \in at : p >= from}
        p == MinOf(ahead)
    IN IF ahead = {} THEN <<SubSeq(s, from, Len(s))>>
       ELSE <<SubSeq(s, from, p - 1)>> \o SplitAt(s, w, at, p + w)

\* str.split(sep)
SplitAll(s, sep) == SplitAt(s, Len(sep), Occurrences(s, sep, 1), 1)

RECURSIVE Join(_, _)
\* sep.join(parts)
Join(parts, sep) ==
    IF Len(parts) = 0 THEN <<>>
    ELSE IF Len(parts) = 1 THEN parts[1]
    ELSE parts[1] \o sep \o Join(Tail(parts), sep)

Digit(n) == <<"0", "1", "2", "3", "4", "5", "6", "7", "8", "9">>[n + 1]

RECURSIVE DigitsOf(_)
\* str(n) of a natural number
DigitsOf(n) == IF n < 10 THEN <<Digit(n)>> ELSE DigitsOf(n \div 10) \o <<Digit(n % 10)>>

(***************************************************************************)
(* ExternalMemory: the reference store.                                    *)
(***************************************************************************)
\* stand-in for Path.home() / ".matecode" / "external_memory"
BASE_DIR == <<"/", "m">>

MAX_SUMMARY == 150

SHORT_FIRST_LINE == 50

REF_PREFIX == 100

SANITIZE_MAX == 50

WordChars ==
    {"a", "b", "c", "d", "e", "f", "g", "h", "i", "j", "k", "l", "m", "n", "o",
     "p", "q", "r", "s", "t", "u", "v", "w", "x", "y", "z",
     "A", "B", "C", "D", "E", "F", "G", "H", "I", "J", "K", "L", "M", "N", "O",
     "P", "Q", "R", "S", "T", "U", "V", "W", "X", "Y", "Z",
     "0", "1", "2", "3", "4", "5", "6", "7", "8", "9", "_"}

\* re.sub(r'[^\w\-_.]', '_', name)[:50]
SanitizePath(name) ==
    Take([i \in 1..Len(name) |->
            IF name[i] \in WordChars \cup {"-", "."} THEN name[i] ELSE "_"],
         SANITIZE_MAX)

\* f"{user_id}:{content_type}:{content[:100]}:{time.time()}"
RefIdData(user_id, content, content_type, t) ==
    user_id \o <<":">> \o content_type \o <<":">> \o Take(content, REF_PREFIX)
        \o <<":">> \o DigitsOf(t)

\* hashlib.sha256(data).hexdigest()[:16] as an ideal hash: equal data give the
\* equal token, different data give different tokens (reg lists the data
\* hashed so far, the token is the position of the data in it)
HashToken(data, reg) ==
    LET pos == {i \in 1..Len(reg) : reg[i] = data}
    IN <<"r">> \o DigitsOf(IF pos = {} THEN Len(reg) + 1 ELSE MinOf(pos))

HashRegister(data, reg) ==
    IF \E i \in 1..Len(reg) : reg[i] = data THEN reg ELSE Append(reg, data)

GenerateRefId(user_id, content, content_type, t, reg) ==
    HashToken(RefIdData(user_id, content, content_type, t), reg)

\* datetime.now().isoformat(): digits, single dashes, colons, 'T' and '.'
IsoFormat(t) ==
    <<"2", "0", "2", "6", "-", "1", "1", "-", "0", "3", "T">> \o DigitsOf(t)

\* json.dumps of one string value
JsonEscape(v) ==
    Join([i \in 1..Len(v) |->
            IF v[i] = "\n" THEN <<"\\", "n">>
            ELSE IF v[i] = "\"" THEN <<"\\", "\"">>
            ELSE IF v[i] = "\\" THEN <<"\\", "\\">>
            ELSE <<v[i]>>], <<>>)

\* json.dumps(metadata or {}, ensure_ascii=False); metadata is None (<<>>)
\* or the map {"k": v}, given as <<v>>
JsonDumps(metadata) ==
    IF metadata = <<>> THEN <<"{", "}">>
    ELSE <<"{", "\"", "k", "\"", ":", " ", "\"">> \o JsonEscape(metadata[1])
            \o <<"\"", "}">>

\* the frontmatter written in front of the stored content
Header(ref_id, user_id, content_type, t, metadata) ==
    <<"-", "-", "-", "\n", "r", "e", "f", "_", "i", "d", ":", " ">> \o ref_id
    \o <<"\n", "u", "s", "e", "r", "_", "i", "d", ":", " ">> \o user_id
    \o <<"\n", "c", "o", "n", "t", "e", "n", "t", "_", "t", "y", "p", "e", ":", " ">>
    \o content_type
    \o <<"\n", "c", "r", "e", "a", "t", "e", "d", "_", "a", "t", ":", " ">>
    \o IsoFormat(t)
    \o <<"\n", "m", "e", "t", "a", "d", "a", "t", "a", ":", " ">>
    \o JsonDumps(metadata)
    \o <<"\n", "-", "-", "-", "\n", "\n">>

\* base_dir / _sanitize_path(user_id)
UserDir(user_id) == BASE_DIR \o <<"/">> \o SanitizePath(user_id)

\* _get_user_dir: the directories after user_dir.mkdir(exist_ok=True)
GetUserDir(ds, user_id) == ds \cup {UserDir(user_id)}

\* user_dir / _sanitize_path(content_type)
TypeDir(user_id, content_type) ==
    UserDir(user_id) \o <<"/">> \o SanitizePath(content_type)

\* type_dir / f"{timestamp}_{ref_id[:8]}.md"
FilePath(user_id, content_type, t, ref_id) ==
    BASE_DIR \o <<"/">> \o SanitizePath(user_id) \o <<"/">>
        \o SanitizePath(content_type) \o <<"/">> \o DigitsOf(t) \o <<"_">>
        \o Take(ref_id, 8) \o <<".", "m", "d">>

GenerateSummary(content) ==
    LET lines == SplitAll(Strip(content), <<"\n">>)
        first_line == lines[1]
        second_part == Join(SubSeq(lines, 2, IF Len(lines) < 3 THEN Len(lines) ELSE 3),
                            <<" ">>)
        combined == first_line \o <<" ", "-", " ">> \o second_part
    IN IF Len(first_line) > MAX_SUMMARY
       THEN Take(first_line, MAX_SUMMARY) \o <<".", ".", ".">>
       ELSE IF Len(first_line) < SHORT_FIRST_LINE /\ Len(lines) > 1
       THEN IF Len(combined) > MAX_SUMMARY
            THEN Take(combined, MAX_SUMMARY) \o <<".", ".", ".">>
            ELSE combined
       ELSE first_line

\* ExternalMemoryRef.to_memory_format
ToMemoryFormat(ref) ==
    <<"[">> \o ref.content_type \o <<"]", " ">> \o ref.summary
        \o <<" ", "(", "s", "e", "e", ":", " ">> \o ref.file_path \o <<")">>

\* the frontmatter removal shared by retrieve_content and retrieve_by_path
StripFrontmatter(text) ==
    IF StartsWith(text, <<"-", "-", "-">>)
    THEN LET parts == Split2(text, <<"-", "-", "-">>)
         IN IF Len(parts) >= 3 THEN Strip(parts[3]) ELSE text
    ELSE text

None == <<"None">>

\* retrieve_content(ref_id) on the store (idx, fs)
RetrieveContentOf(idx, fs, ref_id) ==
    IF ref_id \notin DOMAIN idx THEN None
    ELSE IF idx[ref_id].file_path \notin DOMAIN fs THEN None
    ELSE StripFrontmatter(fs[idx[ref_id].file_path])

\* retrieve_by_path(file_path) on the files fs
RetrieveByPathOf(fs, file_path) ==
    LET path == IF file_path \in DOMAIN fs THEN file_path
                ELSE BASE_DIR \o <<"/">> \o file_path
    IN IF path \notin DOMAIN fs THEN None ELSE StripFrontmatter(fs[path])

\* the last position of the line of s that holds position p
LineEnd(s, p) ==
    IF Find(s, <<"\n">>, p) = 0 THEN Len(s) ELSE Find(s, <<"\n">>, p) - 1

RECURSIVE SeeGroupFrom(_, _)
SeeGroupFrom(content, from) ==
    LET open == <<"(", "s", "e", "e", ":", " ">>
        i == Find(content, open, from)
    IN IF i = 0 THEN None
       ELSE LET k == Find(SubSeq(content, 1, LineEnd(content, i + 6)), <<")">>, i + 7)
            IN IF k = 0 THEN SeeGroupFrom(content, i + 1)
               ELSE SubSeq(content, i + 6, k - 1)

\* re.search(r'\(see: (.+?)\)', content): the group of the leftmost match,
\* None when nothing matches; '.' does not match a newline
SeeGroup(content) == SeeGroupFrom(content, 1)

\* MemoryCompressor.expand_if_reference
ExpandIfReferenceOf(fs, content) ==
    LET file_path == SeeGroup(content)
    IN IF file_path = None THEN content
       ELSE LET full_content == RetrieveByPathOf(fs, file_path)
            IN IF full_content # None /\ full_content # <<>> THEN full_content
               ELSE content

Put(f, k, v) == [x \in DOMAIN f \cup {k} |-> IF x = k THEN v ELSE f[x]]

(***************************************************************************)
(* Inputs of the reference store.                                          *)
(***************************************************************************)
StoreUsers == {<<"u">>, <<"a", "-", "-", "-", "b">>}

StoreContents ==
    {<<" ", "x", "\n">>, <<"a", "-", "-", "-", "b">>,
     <<"n", " ", "(", "s", "e", "e", ":", " ", "z", ")", "\n", "b">>, <<" ">>}

StoreTypes == {<<"c">>}

StoreMetadata == {<<>>, <<<<"-", "-", "-">>>>}

\* the texts a reference marker is embedded in
Embed(marker) == {marker, <<"p", " ">> \o marker \o <<" ", "q">>}

(***************************************************************************)
(* Operations of the reference store.                                      *)
(***************************************************************************)
\* a validation that lets whitespace through
IsBlankOnlyEmpty(content) == content = <<>>

\* not content or not content.strip()
IsBlank(content) == content = <<>> \/ Strip(content) = <<>>

\* store_large_content: ValueError on blank content, otherwise the artifact
\* file and the index entry are written and the reference is returned
StoreLargeContent(user_id, content_in, content_type, metadata) ==
    /\ Cardinality(refs) < MaxStores
    /\ IF IsBlank(content_in)
       THEN /\ ret' = [op |-> "store_large_content", raised |-> "ValueError",
                       content |-> content_in]
            /\ UNCHANGED <<now, storeVars, ledgerVars, promptVars, raceVars, bridge>>
       ELSE LET content == Strip(content_in)
                data == RefIdData(user_id, content, content_type, now)
                ref_id == HashToken(data, hashed)
                file_path == FilePath(user_id, content_type, now, ref_id)
                ref == [ref_id |-> ref_id, content_type |-> content_type,
                        file_path |-> file_path,
                        summary |-> GenerateSummary(content),
                        created_at |-> now, size_bytes |-> Len(content),
                        metadata |-> metadata]
            IN /\ hashed' = HashRegister(data, hashed)
               /\ dirs' = GetUserDir(dirs, user_id)
                              \cup {TypeDir(user_id, content_type)}
               /\ files' = Put(files, file_path,
                               Header(ref_id, user_id, content_type, now, metadata)
                                   \o content)
               /\ index' = Put(index, ref_id,
                               [user_id |-> user_id, file_path |-> file_path,
                                created_at |-> now, content_type |-> content_type])
               /\ refs' = refs \cup {[ref |-> ref, user_id |-> user_id,
                                      content |-> content_in]}
               /\ ret' = [op |-> "store_large_content", raised |-> "",
                          content |-> content_in, ref |-> ref]
               /\ UNCHANGED <<now, ledgerVars, promptVars, raceVars, bridge>>

\* retrieve_content(ref_id) for a reference a caller holds
RetrieveContent(r) ==
    /\ ret' = [op |-> "retrieve_content", stored |-> r,
               val |-> RetrieveContentOf(index, files, r.ref.ref_id)]
    /\ UNCHANGED <<now, storeVars, ledgerVars, promptVars, raceVars, bridge>>

\* expand_if_reference on a text that embeds the marker of a held reference
ExpandIfReference(r, text) ==
    /\ ret' = [op |-> "expand_if_reference", stored |-> r, text |-> text,
               val |-> ExpandIfReferenceOf(files, text)]
    /\ UNCHANGED <<now, storeVars, ledgerVars, promptVars, raceVars, bridge>>

\* the wall clock advances
Tick ==
    /\ now < MaxClock
    /\ now' = now + 1
    /\ UNCHANGED <<storeVars, ledgerVars, promptVars, raceVars, bridge, ret>>

(***************************************************************************)
(* The bridge between the chat and the terminal session: its files, the    *)
(* transcript of the session, the fields of the response monitor and of    *)
(* the polling handler, the updates the server holds, and the typing       *)
(* threads by their position in send_typing_loop.  requested_at, relays,   *)
(* handled and requests are history: the number of transcript entries when *)
(* the pending flag was last set, the times each transcript entry has been *)
(* sent to the chat, the update ids handled so far in order, and the       *)
(* number of handled messages.  queue holds the updates the server has not *)
(* been told to drop, last_update_id the id of the latest of them.         *)
(***************************************************************************)
\* ResponseMonitor.__init__, PollingHandler.__init__ with no offset file,
\* and no file, session, transcript entry or thread otherwise; chat_id_file
\* and offset_file are 0 while the file does not exist
BridgeInit ==
    [pending |-> FALSE, chat_id_file |-> 0, tmux |-> FALSE,
     transcript |-> <<>>, last_transcript_path |-> None, last_position |-> 0,
     offset |-> 0, offset_file |-> 0, running |-> FALSE, queue |-> <<>>,
     last_update_id |-> 0,
     batch |-> <<>>, typing |-> [check |-> 0, sleep |-> 0],
     requested_at |-> 0, relays |-> <<>>, handled |-> <<>>, requests |-> 0]

Init ==
    /\ now = 0
    /\ index = <<>>
    /\ files = <<>>
    /\ dirs = {BASE_DIR}
    /\ hashed = <<>>
    /\ refs = {}
    /\ memory = <<>>
    /\ mem_next = 1
    /\ calls = <<>>
    /\ session_task_ids = <<>>
    /\ task_goals = <<>>
    /\ cache = <<>>
    /\ cache_puts = <<>>
    /\ cache_expired = {}
    /\ cache_stats = [hits |-> 0, misses |-> 0]
    /\ inflight = <<>>
    /\ cutoffs = {}
    /\ bridge = BridgeInit
    /\ ret = [op |-> "init"]

NextStore ==
    \/ \E u \in StoreUsers, c \in StoreContents, t \in StoreTypes, m \in StoreMetadata :
          StoreLargeContent(u, c, t, m)
    \/ \E r \in refs : RetrieveContent(r)
    \/ \E r \in refs : \E text \in Embed(ToMemoryFormat(r.ref)) : ExpandIfReference(r, text)
    \/ Tick

SpecStore == Init /\ [][NextStore]_vars

(***************************************************************************)
(* Claims about the reference store.                                       *)
(***************************************************************************)
\* C1: retrieve_content(store_large_content(u, C, t, m).ref_id) returns
\* exactly the content C the caller supplied, for every C that is non-empty
\* after trimming and every user_id, content_type and metadata.
C1_RoundTrip ==
    ret.op = "retrieve_content" => ret.val = ret.stored.content

\* C6: expanding a text that embeds the marker of a stored reference
\* returns the stored content C verbatim (stated for the references whose
\* content retrieve_content returns exactly, so that what is refuted is the
\* expansion of the marker and not the round trip of C1).
C6_ExpandRestores ==
    (/\ ret.op = "expand_if_reference"
     /\ RetrieveContentOf(index, files, ret.stored.ref.ref_id) = ret.stored.content)
        => ret.val = ret.stored.content

(***************************************************************************)
(* FailureMemory: the failure ledger.                                      *)
(***************************************************************************)
UpperCase ==
    <<"A", "B", "C", "D", "E", "F", "G", "H", "I", "J", "K", "L", "M", "N", "O",
      "P", "Q", "R", "S", "T", "U", "V", "W", "X", "Y", "Z">>

LowerCase ==
    <<"a", "b", "c", "d", "e", "f", "g", "h", "i", "j", "k", "l", "m", "n", "o",
      "p", "q", "r", "s", "t", "u", "v", "w", "x", "y", "z">>

\* str.lower()
Lower(s) ==
    [i \in 1..Len(s) |->
        IF \E k \in 1..26 : UpperCase[k] = s[i]
        THEN LowerCase[CHOOSE k \in 1..26 : UpperCase[k] = s[i]]
        ELSE s[i]]

SIGNATURE_PREFIX == 100

STORED_CONTEXT_MAX == 200

FIND_LIMIT == 50

UPDATE_LIMIT == 100

DEFAULT_LIMIT == 20

\* "待总结", the lesson of a failure that has none yet
PENDING_LESSON == <<"T", "B", "D">>

UNKNOWN == <<"u", "n", "k", "n", "o", "w", "n">>

NotAvailable == <<"N", "/", "A">>

\* the patterns of each error kind, in the order the kinds are tried; a
\* pattern <<a>> is the literal a, a pattern <<a, b>> is a.*b (the message is
\* lowercased and the search ignores case, so the literals are in lower case)
ERROR_PATTERNS ==
    <<
      [error_type |-> <<"s","y","n","t","a","x">>,
       patterns |-> <<
          <<<<"s","y","n","t","a","x","e","r","r","o","r">>>>,
          <<<<"s","y","n","t","a","x"," ","e","r","r","o","r">>>>,
          <<<<"u","n","e","x","p","e","c","t","e","d"," ","t","o","k","e","n">>>>,
          <<<<"i","n","v","a","l","i","d"," ","s","y","n","t","a","x">>>>,
          <<<<"e","x","p","e","c","t","e","d">>, <<"b","u","t"," ","f","o","u","n","d">>>>>>],
      [error_type |-> <<"l","o","g","i","c">>,
       patterns |-> <<
          <<<<"l","o","g","i","c","e","r","r","o","r">>>>,
          <<<<"a","s","s","e","r","t","i","o","n"," ","f","a","i","l","e","d">>>>,
          <<<<"w","r","o","n","g"," ","r","e","s","u","l","t">>>>,
          <<<<"i","n","c","o","r","r","e","c","t"," ","o","u","t","p","u","t">>>>,
          <<<<"u","n","e","x","p","e","c","t","e","d"," ","b","e","h","a","v","i","o","r">>>>>>],
      [error_type |-> <<"r","u","n","t","i","m","e">>,
       patterns |-> <<
          <<<<"r","u","n","t","i","m","e","e","r","r","o","r">>>>,
          <<<<"n","u","l","l","p","o","i","n","t","e","r">>>>,
          <<<<"u","n","d","e","f","i","n","e","d">>, <<"r","e","f","e","r","e","n","c","e">>>>,
          <<<<"s","e","g","m","e","n","t","a","t","i","o","n"," ","f","a","u","l","t">>>>,
          <<<<"m","e","m","o","r","y"," ","l","e","a","k">>>>>>],
      [error_type |-> <<"a","p","i","_","u","s","a","g","e">>,
       patterns |-> <<
          <<<<"a","p","i","e","r","r","o","r">>>>,
          <<<<"b","a","d"," ","r","e","q","u","e","s","t">>>>,
          <<<<"i","n","v","a","l","i","d"," ","p","a","r","a","m","e","t","e","r">>>>,
          <<<<"m","e","t","h","o","d"," ","n","o","t"," ","a","l","l","o","w","e","d">>>>,
          <<<<"n","o","t"," ","s","u","p","p","o","r","t","e","d">>>>>>],
      [error_type |-> <<"c","o","n","f","i","g">>,
       patterns |-> <<
          <<<<"c","o","n","f","i","g","e","r","r","o","r">>>>,
          <<<<"c","o","n","f","i","g","u","r","a","t","i","o","n">>>>,
          <<<<"m","i","s","s","i","n","g"," ","c","o","n","f","i","g">>>>,
          <<<<"e","n","v"," ","v","a","r","i","a","b","l","e">>>>,
          <<<<"s","e","t","t","i","n","g"," ","n","o","t"," ","f","o","u","n","d">>>>>>],
      [error_type |-> <<"p","e","r","m","i","s","s","i","o","n">>,
       patterns |-> <<
          <<<<"p","e","r","m","i","s","s","i","o","n","e","r","r","o","r">>>>,
          <<<<"a","c","c","e","s","s"," ","d","e","n","i","e","d">>>>,
          <<<<"u","n","a","u","t","h","o","r","i","z","e","d">>>>,
          <<<<"f","o","r","b","i","d","d","e","n">>>>,
          <<<<"n","o","t"," ","a","l","l","o","w","e","d">>>>>>],
      [error_type |-> <<"n","e","t","w","o","r","k">>,
       patterns |-> <<
          <<<<"n","e","t","w","o","r","k","e","r","r","o","r">>>>,
          <<<<"c","o","n","n","e","c","t","i","o","n"," ","r","e","f","u","s","e","d">>>>,
          <<<<"t","i","m","e","o","u","t">>>>,
          <<<<"e","n","o","t","f","o","u","n","d">>>>,
          <<<<"e","c","o","n","n","r","e","f","u","s","e","d">>>>>>]
    >>

\* re.search of one pattern; '.' does not match a newline
PatternMatches(text, pat) ==
    IF Len(pat) = 1 THEN Contains(text, pat[1])
    ELSE \E i \in Occurrences(text, pat[1], 1) :
            \E j \in Occurrences(text, pat[2], 1) :
                /\ j >= i + Len(pat[1])
                /\ \A k \in (i + Len(pat[1]))..(j - 1) : text[k] # "\n"

RECURSIVE DetectFromLast(_, _)
\* the last kind with a matching pattern instead of the first
DetectFromLast(error_lower, k) ==
    IF k > Len(ERROR_PATTERNS) THEN UNKNOWN
    ELSE IF DetectFromLast(error_lower, k + 1) # UNKNOWN
    THEN DetectFromLast(error_lower, k + 1)
    ELSE IF \E p \in 1..Len(ERROR_PATTERNS[k].patterns) :
                PatternMatches(error_lower, ERROR_PATTERNS[k].patterns[p])
    THEN ERROR_PATTERNS[k].error_type
    ELSE UNKNOWN

RECURSIVE DetectFrom(_, _)
DetectFrom(error_lower, k) ==
    IF k > Len(ERROR_PATTERNS) THEN UNKNOWN
    ELSE IF \E p \in 1..Len(ERROR_PATTERNS[k].patterns) :
                PatternMatches(error_lower, ERROR_PATTERNS[k].patterns[p])
    THEN ERROR_PATTERNS[k].error_type
    ELSE DetectFrom(error_lower, k + 1)

\* _detect_error_type
DetectErrorType(error_message) == DetectFrom(Lower(error_message), 1)

\* context[:200] if context else 'N/A'
StoredContext(context) ==
    IF context = <<>> THEN NotAvailable ELSE Take(context, STORED_CONTEXT_MAX)

\* _format_for_storage
FormatForStorage(record) ==
    <<"X", "X", "X", "X", ":", "\n", "a", "c", "t", "i", "o", "n", ":", " ">>
    \o record.action
    \o <<"\n", "e", "r", "r", "o", "r", ":", " ">> \o record.error_message
    \o <<"\n", "t", "y", "p", "e", ":", " ">> \o record.error_type
    \o <<"\n", "c", "o", "n", "t", "e", "x", "t", ":", " ">>
    \o StoredContext(record.context)
    \o <<"\n", "l", "e", "s", "s", "o", "n", ":", " ">> \o record.lesson
    \o <<"\n", "r", "e", "c", "u", "r", "r", "e", "n", "c", "e", ":", " ">>
    \o DigitsOf(record.recurrence_count) \o <<"x", "\n">>

NoMatch == <<"NoMatch">>

RECURSIVE LastNonNewline(_, _, _)
\* the largest k <= w with a character other than a newline at p + k, -1 if none
LastNonNewline(s, p, w) ==
    IF w < 0 THEN -1
    ELSE IF p + w <= Len(s) /\ s[p + w] # "\n" THEN w
    ELSE LastNonNewline(s, p, w - 1)

RECURSIVE SearchRestFrom(_, _, _)
SearchRestFrom(content, label, from) ==
    LET i == Find(content, label, from)
        p == i + Len(label)
        k == LastNonNewline(content, p, WsRun(content, p))
    IN IF i = 0 THEN NoMatch
       ELSE IF k < 0 THEN SearchRestFrom(content, label, i + 1)
       ELSE SubSeq(content, p + k, LineEnd(content, p + k))

\* re.search(label + r'\s*(.+)', content).group(1): \s* is greedy and gives
\* characters back until '.+' finds a character that is not a newline
SearchRest(content, label) == SearchRestFrom(content, label, 1)

RECURSIVE RunOf(_, _, _)
\* the length of the run of characters of the set cs in s from position p on
RunOf(s, p, cs) == IF p > Len(s) \/ s[p] \notin cs THEN 0 ELSE 1 + RunOf(s, p + 1, cs)

RECURSIVE SearchWordFrom(_, _, _)
SearchWordFrom(content, label, from) ==
    LET i == Find(content, label, from)
        p == i + Len(label) + WsRun(content, i + Len(label))
        n == RunOf(content, p, WordChars)
    IN IF i = 0 THEN NoMatch
       ELSE IF n = 0 THEN SearchWordFrom(content, label, i + 1)
       ELSE SubSeq(content, p, p + n - 1)

\* re.search(label + r'\s*(\w+)', content).group(1)
SearchWord(content, label) == SearchWordFrom(content, label, 1)

DigitChars == {"0", "1", "2", "3", "4", "5", "6", "7", "8", "9"}

RECURSIVE SearchCountFrom(_, _, _)
SearchCountFrom(content, label, from) ==
    LET i == Find(content, label, from)
        p == i + Len(label) + WsRun(content, i + Len(label))
        n == RunOf(content, p, DigitChars)
    IN IF i = 0 THEN NoMatch
       ELSE IF n = 0 \/ p + n > Len(content) \/ content[p + n] # "x"
       THEN SearchCountFrom(content, label, i + 1)
       ELSE SubSeq(content, p, p + n - 1)

\* re.search(label + r'\s*(\d+)x', content).group(1)
SearchCount(content, label) == SearchCountFrom(content, label, 1)

RECURSIVE ParseInt(_)
\* int(digits)
ParseInt(d) ==
    IF Len(d) = 0 THEN 0
    ELSE 10 * ParseInt(SubSeq(d, 1, Len(d) - 1))
            + (CHOOSE n \in 0..9 : Digit(n) = d[Len(d)])

OrElse(m, default) == IF m = NoMatch THEN default ELSE m

\* _parse_memory_to_record
ParseMemoryToRecord(mem) ==
    [failure_id |-> mem.metadata.failure_id,
     user_id |-> mem.user_id,
     action |-> OrElse(SearchRest(mem.content, <<"a", "c", "t", "i", "o", "n", ":">>), <<>>),
     error_message |-> OrElse(SearchRest(mem.content, <<"e", "r", "r", "o", "r", ":">>), <<>>),
     error_type |-> OrElse(SearchWord(mem.content, <<"t", "y", "p", "e", ":">>), UNKNOWN),
     context |-> OrElse(SearchRest(mem.content, <<"c", "o", "n", "t", "e", "x", "t", ":">>), <<>>),
     lesson |-> OrElse(SearchRest(mem.content, <<"l", "e", "s", "s", "o", "n", ":">>), <<>>),
     timestamp |-> mem.timestamp,
     recurrence_count |->
        LET m == SearchCount(mem.content,
                             <<"r", "e", "c", "u", "r", "r", "e", "n", "c", "e", ":">>)
        IN IF m = NoMatch THEN 1 ELSE ParseInt(m),
     resolved |-> mem.metadata.resolved]

RECURSIVE OfUser(_, _)
OfUser(mem, user_id) ==
    IF mem = <<>> THEN <<>>
    ELSE IF mem[1].user_id = user_id THEN <<mem[1]>> \o OfUser(Tail(mem), user_id)
    ELSE OfUser(Tail(mem), user_id)

\* the memory index collaborator: get_by_type(user_id, "failure_lesson", limit)
GetByType(mem, user_id, limit) == Take(OfUser(mem, user_id), limit)

\* the memory index collaborator: add(user_id, content, type, metadata)
MemoryAdd(mem, id, user_id, content, metadata, t) ==
    Append(mem, [id |-> id, user_id |-> user_id, content |-> content,
                 metadata |-> metadata, timestamp |-> t])

RECURSIVE MemoryDelete(_, _, _)
\* the memory index collaborator: delete(user_id, record_id)
MemoryDelete(mem, user_id, id) ==
    IF mem = <<>> THEN <<>>
    ELSE IF mem[1].user_id = user_id /\ mem[1].id = id THEN Tail(mem)
    ELSE <<mem[1]>> \o MemoryDelete(Tail(mem), user_id, id)

RECURSIVE ParsedRecords(_, _)
ParsedRecords(memories, resolved_only) ==
    IF memories = <<>> THEN <<>>
    ELSE IF resolved_only /\ ~memories[1].metadata.resolved
    THEN ParsedRecords(Tail(memories), resolved_only)
    ELSE <<ParseMemoryToRecord(memories[1])>>
            \o ParsedRecords(Tail(memories), resolved_only)

\* get_user_failures
GetUserFailures(mem, user_id, resolved_only, limit) ==
    Take(ParsedRecords(GetByType(mem, user_id, limit * 2), resolved_only), limit)

NoRecord == [failure_id |-> <<>>]

\* the normalized signature compared by _find_similar_failure
Signature(action, error_message) ==
    <<Strip(Lower(action)), Take(Strip(Lower(error_message)), SIGNATURE_PREFIX)>>

\* _find_similar_failure
FindSimilarFailure(mem, user_id, action, error_message) ==
    LET failures == GetUserFailures(mem, user_id, FALSE, FIND_LIMIT)
        same == {i \in 1..Len(failures) :
                    /\ Strip(Lower(failures[i].action)) = Strip(Lower(action))
                    /\ Take(Strip(Lower(failures[i].error_message)), SIGNATURE_PREFIX)
                          = Take(Strip(Lower(error_message)), SIGNATURE_PREFIX)}
    IN IF same = {} THEN NoRecord ELSE failures[MinOf(same)]

MetadataOf(record) ==
    [failure_id |-> record.failure_id, error_type |-> record.error_type,
     action |-> record.action, recurrence_count |-> record.recurrence_count,
     resolved |-> record.resolved]

\* _update_failure: delete the stored item of the record, add the record anew
UpdateFailure(mem, id, user_id, record, t) ==
    LET memories == GetByType(mem, user_id, UPDATE_LIMIT)
        hit == {i \in 1..Len(memories) :
                   memories[i].metadata.failure_id = record.failure_id}
        kept == IF hit = {} THEN mem
                ELSE MemoryDelete(mem, user_id, memories[MinOf(hit)].id)
    IN MemoryAdd(kept, id, user_id, FormatForStorage(record), MetadataOf(record), t)

\* a recurrence path that stores the context of the newest occurrence
RecurrenceRecordNewestContext(similar, context, t) ==
    [similar EXCEPT !.recurrence_count = @ + 1, !.timestamp = t, !.context = context]

\* the record that the recurrence path of record_failure writes back: the
\* context argument of the call is not used
RecurrenceRecord(similar, context, t) ==
    [similar EXCEPT !.recurrence_count = @ + 1, !.timestamp = t]

\* f"{user_id}:{action}:{error}:{time.time()}"
FailureIdData(user_id, action, error, t) ==
    user_id \o <<":">> \o action \o <<":">> \o error \o <<":">> \o DigitsOf(t)

\* the record that the first-occurrence path of record_failure creates
NewRecord(failure_id, user_id, action, error_message, context, lesson, t) ==
    [failure_id |-> failure_id, user_id |-> user_id, action |-> action,
     error_message |-> error_message,
     error_type |-> DetectErrorType(error_message),
     context |-> context,
     lesson |-> IF lesson = <<>> THEN PENDING_LESSON ELSE lesson,
     timestamp |-> t, recurrence_count |-> 1, resolved |-> FALSE]

HEADER_LINE ==
    <<"[", "!", "~", " ", "R", "R", "R", "R", "R", "R", " ", "-", " ",
      "A", "A", "A", "A", "A", "A", "]">>

\* the lines of the entry of the i-th failure
EntryLines(i, f) ==
    <<DigitsOf(i) \o <<".", " ", "O", "P", ":", " ">> \o f.action,
      <<" ", " ", " ", "E", "R", ":", " ">> \o Take(f.error_message, 100)>>
    \o (IF f.lesson # <<>> /\ f.lesson # PENDING_LESSON
        THEN <<<<" ", " ", " ", "L", "S", ":", " ">> \o f.lesson>>
        ELSE <<>>)
    \o (IF f.recurrence_count > 1
        THEN <<<<" ", " ", " ", "(", "R", "P", "T", " ">>
                 \o DigitsOf(f.recurrence_count) \o <<" ", "X", ")">>>>
        ELSE <<>>)

\* whether the loop of format_for_prompt stops before the entry
BudgetExceeded(current_len, entry_len, max_chars) ==
    current_len + entry_len > max_chars

RECURSIVE FormatLoop(_, _, _, _, _)
\* the loop of format_for_prompt from the i-th failure on
FormatLoop(failures, i, lines, current_len, max_chars) ==
    IF i > Len(failures) THEN lines
    ELSE LET entry_lines == EntryLines(i, failures[i])
             entry_text == Join(entry_lines, <<"\n">>) \o <<"\n">>
         IN IF BudgetExceeded(current_len, Len(entry_text), max_chars) THEN lines
            ELSE FormatLoop(failures, i + 1, lines \o entry_lines \o <<<<>>>>,
                            current_len + Len(entry_text) + 1, max_chars)

\* format_for_prompt
FormatForPrompt(failures, max_chars) ==
    IF failures = <<>> THEN <<>>
    ELSE Join(FormatLoop(failures, 1, <<HEADER_LINE, <<>>>>, Len(HEADER_LINE) + 1,
                         max_chars),
              <<"\n">>)

(***************************************************************************)
(* Inputs of the failure ledger.                                           *)
(***************************************************************************)
LedgerUsers == {<<"u">>}

\* the (action, error_message) pairs recorded
LedgerFailures ==
    {[action |-> <<"B", "u">>, error |-> <<"E", "r">>],
     [action |-> <<" ", "b", "u">>, error |-> <<"E", "r">>],
     [action |-> <<"B", "u">>, error |-> <<"T", "\n", "f">>]}

\* the context and the lesson passed with an occurrence
LedgerNotes ==
    {[context |-> <<"c", "1">>, lesson |-> <<>>],
     [context |-> <<"c", "2">>, lesson |-> <<"l">>]}

\* the budgets format_for_prompt is called with
FormatBudgets == {20, 41, 42, 800}

(***************************************************************************)
(* Operations of the failure ledger.                                       *)
(***************************************************************************)
Count(f, k) == IF k \in DOMAIN f THEN f[k] ELSE 0

\* the number of record_failure calls made so far
TotalCalls(c) ==
    LET RECURSIVE Sum(_)
        Sum(S) == IF S = {} THEN 0
                  ELSE LET k == CHOOSE k \in S : TRUE
                       IN c[k] + Sum(S \ {k})
    IN Sum(DOMAIN c)

\* record_failure, one call
RecordFailureCall(user_id, action, error_message, context, lesson) ==
    LET similar == FindSimilarFailure(memory, user_id, action, error_message)
        key == <<user_id, Signature(action, error_message)>>
    IN /\ calls' = Put(calls, key, Count(calls, key) + 1)
       /\ mem_next' = mem_next + 1
       /\ IF similar # NoRecord
          THEN LET record == RecurrenceRecord(similar, context, now)
               IN /\ memory' = UpdateFailure(memory, mem_next, user_id, record, now)
                  /\ hashed' = hashed
                  /\ ret' = [op |-> "record_failure", path |-> "update",
                             user_id |-> user_id, context |-> context,
                             before |-> similar, record |-> record]
          ELSE LET data == FailureIdData(user_id, action, error_message, now)
                   record == NewRecord(HashToken(data, hashed), user_id, action,
                                       error_message, context, lesson, now)
               IN /\ memory' = MemoryAdd(memory, mem_next, user_id,
                                         FormatForStorage(record),
                                         MetadataOf(record), now)
                  /\ hashed' = HashRegister(data, hashed)
                  /\ ret' = [op |-> "record_failure", path |-> "new",
                             user_id |-> user_id, context |-> context,
                             before |-> NoRecord, record |-> record]
       /\ UNCHANGED <<now, index, files, dirs, refs, promptVars, raceVars, bridge>>

\* record_failure, while the model admits another call
RecordFailure(user_id, action, error_message, context, lesson) ==
    /\ TotalCalls(calls) < MaxCalls
    /\ RecordFailureCall(user_id, action, error_message, context, lesson)

\* format_for_prompt on the failures of a user
FormatFailures(user_id, max_chars) ==
    LET failures == GetUserFailures(memory, user_id, FALSE, DEFAULT_LIMIT)
    IN /\ failures # <<>>
       /\ ret' = [op |-> "format_for_prompt", failures |-> failures,
                  max_chars |-> max_chars,
                  val |-> FormatForPrompt(failures, max_chars)]
       /\ UNCHANGED <<now, storeVars, ledgerVars, promptVars, raceVars, bridge>>

NextLedger ==
    \/ \E u \in LedgerUsers, f \in LedgerFailures, n \in LedgerNotes :
          RecordFailure(u, f.action, f.error, n.context, n.lesson)
    \/ \E u \in LedgerUsers, n \in FormatBudgets : FormatFailures(u, n)
    \/ Tick

SpecLedger == Init /\ [][NextLedger]_vars

(***************************************************************************)
(* Claims about the failure ledger.                                        *)
(***************************************************************************)
\* the stored record with the failure id of rec, as get_user_failures reads it
Reread(mem, rec) ==
    LET recs == GetUserFailures(mem, rec.user_id, FALSE, DEFAULT_LIMIT)
    IN {recs[i] : i \in {j \in 1..Len(recs) : recs[j].failure_id = rec.failure_id}}

\* the records of a user that carry the signature sig
WithSignature(mem, user_id, sig) ==
    LET recs == GetUserFailures(mem, user_id, FALSE, DEFAULT_LIMIT)
    IN {i \in 1..Len(recs) : Signature(recs[i].action, recs[i].error_message) = sig}

\* C2: after any sequence of record_failure calls the ledger of a user holds
\* exactly one record per normalized signature recorded, whose
\* recurrence_count is the number of calls made with that signature.
C2_Dedup ==
    \A key \in DOMAIN calls :
        LET recs == GetUserFailures(memory, key[1], FALSE, DEFAULT_LIMIT)
            same == WithSignature(memory, key[1], key[2])
        IN /\ Cardinality(same) = 1
           /\ \A i \in same : recs[i].recurrence_count = calls[key]

\* the text of the header and the complete entries of the first k failures
CompleteEntries(failures, k) ==
    LET RECURSIVE Upto(_)
        Upto(i) == IF i = 0 THEN <<HEADER_LINE, <<>>>>
                   ELSE Upto(i - 1) \o EntryLines(i, failures[i]) \o <<<<>>>>
    IN Join(Upto(k), <<"\n">>)

\* C3: format_for_prompt(records, N) returns at most N characters, and every
\* record in the text is there as a complete entry.
C3_Budget ==
    ret.op = "format_for_prompt" =>
        /\ Len(ret.val) <= ret.max_chars
        /\ \E k \in 0..Len(ret.failures) : ret.val = CompleteEntries(ret.failures, k)

\* C5 as claimed: after a recurrence the stored context of the record is the
\* context of the newest occurrence.
C5_NewestContext ==
    (ret.op = "record_failure" /\ ret.path = "update") =>
        \A r \in Reread(memory, ret.record) : r.context = StoredContext(ret.context)

\* C5 as the code has it: a recurrence leaves the stored context of the
\* record as it was before the call; the context passed to the call is
\* discarded.
C5_ContextKept ==
    (ret.op = "record_failure" /\ ret.path = "update") =>
        /\ Reread(memory, ret.record) # {}
        /\ \A r \in Reread(memory, ret.record) : r.context = ret.before.context

\* a recurrence was recorded with a context other than the stored one
C5_Witness ==
    /\ ret.op = "record_failure"
    /\ ret.path = "update"
    /\ ret.record.recurrence_count >= 2
    /\ StoredContext(ret.context) # ret.before.context

(***************************************************************************)
(* Task documents (external_memory.py, todo.md).                           *)
(***************************************************************************)
TODO_FILENAME == <<"t", "o", "d", "o", ".", "m", "d">>

DEFAULT_TASK_ID == <<"d", "e", "f", "a", "u", "l", "t">>

\* datetime.now().strftime('%Y-%m-%d %H:%M')
StrfTime(t) ==
    <<"2", "0", "2", "6", "-", "1", "1", "-", "0", "3", " ", "0", "8", ":", "5">>
        \o DigitsOf(t)

\* user_dir / f"{task_id}_{self.TODO_FILENAME}"
TodoPath(user_id, task_id) ==
    BASE_DIR \o <<"/">> \o SanitizePath(user_id) \o <<"/">> \o task_id \o <<"_">>
        \o TODO_FILENAME

\* _default_todo_template up to the creation time
DEFAULT_TODO_HEAD ==
    <<"#", " ", "Z", "Z", "Z", "Z", "Z", "Z", "\n", "\n", "#", "#", " ",
      "Z", "Z", "Z", "Z", "\n", "[", "Z", "Z", "Z", "Z", "Z", "Z", "Z",
      "Z", "Z", "Z", "Z", "Z", "Z", "]", "\n", "\n", "#", "#", " ", "Z",
      "Z", "Z", "\n", "-", " ", "[", " ", "]", "\n", "\n", "#", "#", " ",
      "Z", "Z", "Z", "Z", "\n", "-", " ", "[", " ", "]", "\n", "\n", "#",
      "#", " ", "Z", "Z", "Z", "Z", "\n", "[", "Z", "Z", "Z", "Z", "Z",
      "Z", "Z", "Z", "Z", "Z", "Z", "Z", "]", "\n", "\n", "#", "#", " ",
      "Z", "Z", "Z", "Z", "\n", "[", "Z", "Z", "Z", "Z", "Z", "Z", "Z",
      "Z", "Z", "Z", "Z", ",", "Z", "Z", "Z", "Z", "Z", "]", "\n", "\n",
      "-", "-", "-", "\n", "*", "C", "r", "e", "a", "t", "e", "d", ":",
      " ">>

\* _default_todo_template
DefaultTodoTemplate(t) == DEFAULT_TODO_HEAD \o StrfTime(t) \o <<"*", "\n">>

\* get_todo_md: the task document, the default template when there is none
GetTodoMd(fs, user_id, task_id, t) ==
    IF TodoPath(user_id, task_id) \in DOMAIN fs THEN fs[TodoPath(user_id, task_id)]
    ELSE DefaultTodoTemplate(t)

\* the separator update_todo_md writes in front of an appended update
UpdateSeparator(t) ==
    <<"\n", "\n", "-", "-", "-", "\n", "*", "U", "p", "d", "a", "t", "e", "d", ":", " ">>
        \o StrfTime(t) \o <<"*", "\n", "\n">>

\* update_todo_md: the files after the call
UpdateTodoMd(fs, user_id, content, task_id, append, t) ==
    LET todo_path == TodoPath(user_id, task_id)
    IN IF append /\ todo_path \in DOMAIN fs
       THEN Put(fs, todo_path, fs[todo_path] \o UpdateSeparator(t) \o content)
       ELSE Put(fs, todo_path, content)

(***************************************************************************)
(* AttentionManager: the prompt assembler (attention_manager.py).          *)
(***************************************************************************)
\* the title line of STATIC_SYSTEM_PREFIX and the blank line that ends it;
\* the constant guidance in between (some 400 characters that no operation
\* reads) is left out
STATIC_SYSTEM_PREFIX ==
    <<"[", "Z", "Z", "Z", "Z", " ", "-", " ", "M", "a", "t", "e", "C", "o", "d", "e",
      " ", "Z", "Z", "Z", "Z", "]", "\n", "\n">>

SECTION_SEPARATOR == <<"\n">> \o Rep("=", 50) \o <<"\n">>

\* get_task_id
GetTaskId(ids, chat_id) ==
    IF chat_id \in DOMAIN ids THEN ids[chat_id] ELSE DEFAULT_TASK_ID

META_HEADING == <<"#", "#", " ", "Z", "Z", "Z", "Z", "Z">>

RECURSIVE MetaLoop(_, _, _)
\* the loop of _extract_meta_prompt from the i-th line on
MetaLoop(lines, i, in_initial_prompt) ==
    IF i > Len(lines) THEN <<>>
    ELSE IF Strip(lines[i]) = META_HEADING THEN MetaLoop(lines, i + 1, TRUE)
    ELSE IF in_initial_prompt
    THEN IF StartsWith(lines[i], <<"#", "#", " ">>) THEN <<>>
         ELSE <<lines[i]>> \o MetaLoop(lines, i + 1, TRUE)
    ELSE MetaLoop(lines, i + 1, FALSE)

\* _extract_meta_prompt
ExtractMetaPrompt(claude_md_content) ==
    IF claude_md_content = <<>> THEN <<>>
    ELSE Strip(Join(MetaLoop(SplitAll(claude_md_content, <<"\n">>), 1, FALSE),
                    <<"\n">>))

WORKING_MEMORY_TITLE == <<"[", "Z", "Z", "Z", "Z", "Z", "Z", "Z", "]">>

WORKING_MEMORY_MAX == 5

\* the first five dialogue turns instead of the last five
FormatWorkingMemoryFirst(working_memory) ==
    IF working_memory = <<>> THEN <<>>
    ELSE Join(<<WORKING_MEMORY_TITLE>>
                 \o [i \in 1..Len(Take(working_memory, WORKING_MEMORY_MAX)) |->
                        DigitsOf(i) \o <<".", " ">> \o working_memory[i]],
              <<"\n">>)

\* _format_working_memory
FormatWorkingMemory(working_memory) ==
    IF working_memory = <<>> THEN <<>>
    ELSE LET recent == Drop(working_memory,
                            IF Len(working_memory) > WORKING_MEMORY_MAX
                            THEN Len(working_memory) - WORKING_MEMORY_MAX ELSE 0)
         IN Join(<<WORKING_MEMORY_TITLE>>
                    \o [i \in 1..Len(recent) |-> DigitsOf(i) \o <<".", " ">> \o recent[i]],
                 <<"\n">>)

MEMORIES_TITLE == <<"[", "Z", "Z", "Z", "Z", "Z", "Z", "]">>

MEMORIES_MAX == 5

MEMORY_LINE_MAX == 150

\* the line of one retrieved memory: for a reference only the summary
MemoryLine(mem) ==
    LET content == IF "content" \in DOMAIN mem THEN mem.content ELSE <<>>
        see == <<"(", "s", "e", "e", ":">>
        shown == IF Contains(content, see)
                 THEN Strip(SubSeq(content, 1, Find(content, see, 1) - 1))
                 ELSE content
    IN <<"*", " ">> \o Take(shown, MEMORY_LINE_MAX)

\* _format_retrieved_memories
FormatRetrievedMemories(memories) ==
    IF memories = <<>> THEN <<>>
    ELSE Join(<<MEMORIES_TITLE>>
                 \o [i \in 1..Len(Take(memories, MEMORIES_MAX)) |-> MemoryLine(memories[i])],
              <<"\n">>)

\* sub in s, for any sub
IsIn(sub, s) == sub = <<>> \/ Contains(s, sub)

\* set(s.split()): the maximal runs of characters other than whitespace
WordsOf(s) ==
    {SubSeq(s, i, j) : <<i, j>> \in
        {p \in (1..Len(s)) \X (1..Len(s)) :
            /\ p[1] <= p[2]
            /\ \A k \in p[1]..p[2] : ~IsSpace(s[k])
            /\ (p[1] = 1 \/ IsSpace(s[p[1] - 1]))
            /\ (p[2] = Len(s) \/ IsSpace(s[p[2] + 1]))}}

EXACT_SCORE == 100

CONTAINS_SCORE == 50

WORD_SCORE == 10

RECURRENCE_SCORE == 5

\* the number of records get_relevant_failures ranks
RELEVANT_LIMIT == 50

\* the score without the weight of recurrence_count
RelevanceScoreUnweighted(f, current_action) ==
    IF Lower(f.action) = Lower(current_action) THEN EXACT_SCORE
    ELSE IF IsIn(Lower(current_action), Lower(f.action))
            \/ IsIn(Lower(f.action), Lower(current_action))
    THEN CONTAINS_SCORE
    ELSE Cardinality(WordsOf(Lower(current_action)) \cap WordsOf(Lower(f.action)))
            * WORD_SCORE

\* the score get_relevant_failures gives the record f for current_action
RelevanceScore(f, current_action) ==
    LET current_action_lower == Lower(current_action)
        action_lower == Lower(f.action)
    IN (IF action_lower = current_action_lower THEN EXACT_SCORE
        ELSE IF IsIn(current_action_lower, action_lower)
                \/ IsIn(action_lower, current_action_lower)
        THEN CONTAINS_SCORE
        ELSE Cardinality(WordsOf(current_action_lower) \cap WordsOf(action_lower))
                * WORD_SCORE)
       + f.recurrence_count * RECURRENCE_SCORE

RECURSIVE SortByScore(_)
\* list.sort(key=score, reverse=True): descending, stable
SortByScore(scored) ==
    IF scored = <<>> THEN <<>>
    ELSE LET best == MinOf({i \in 1..Len(scored) :
                              \A j \in 1..Len(scored) : scored[j][1] <= scored[i][1]})
         IN <<scored[best]>>
               \o SortByScore(SubSeq(scored, 1, best - 1)
                                 \o SubSeq(scored, best + 1, Len(scored)))

\* get_relevant_failures
GetRelevantFailures(mem, user_id, current_action, limit) ==
    LET all_failures == GetUserFailures(mem, user_id, FALSE, RELEVANT_LIMIT)
        scored_failures == [i \in 1..Len(all_failures) |->
                               <<RelevanceScore(all_failures[i], current_action),
                                 all_failures[i]>>]
        sorted == Take(SortByScore(scored_failures), limit)
    IN [i \in 1..Len(sorted) |-> sorted[i][2]]

LESSONS_LIMIT == 3

LESSONS_MAX_CHARS == 800

\* "if failures: return format_for_prompt(failures, max_chars=800)", else ""
LessonsOf(failures) ==
    IF failures # <<>> THEN FormatForPrompt(failures, LESSONS_MAX_CHARS) ELSE <<>>

\* _get_failure_lessons
GetFailureLessons(mem, chat_id, user_input) ==
    LessonsOf(GetRelevantFailures(mem, chat_id, user_input, LESSONS_LIMIT))

\* _get_task_state
GetTaskState(fs, ids, chat_id, t) == GetTodoMd(fs, chat_id, GetTaskId(ids, chat_id), t)

\* the prefixes of the lines _format_task_recitation keeps
KEY_PREFIXES ==
    {<<"#">>, <<"#", "#", " ", "Z", "Z", "Z", "Z">>, <<"#", "#", " ", "Z", "Z">>,
     <<"-", " ", "[", " ", "]">>, <<"!", "~">>}

KEY_SECTIONS_MIN == 100

RAW_SUMMARY_MAX == 500

KEY_LINES_MAX == 20

RECURSIVE KeySections(_, _)
\* the lines of the task document kept by _format_task_recitation
KeySections(lines, i) ==
    IF i > Len(lines) THEN <<>>
    ELSE LET stripped == Strip(lines[i])
         IN (IF \E prefix \in KEY_PREFIXES : StartsWith(stripped, prefix)
             THEN <<lines[i]>> ELSE <<>>)
            \o KeySections(lines, i + 1)

RECITATION_TITLE ==
    <<"[", "!", "~", " ", "Z", "Z", "Z", "Z", "Z", "Z", " ", "-", " ", "Z",
      "Z", "Z", "Z", "Z", "Z", "Z", "]", "\n">>

RECITATION_REMINDER ==
    <<"\n", "\n", "[", "Z", "Z", "]", "Z", "Z", "Z", "Z", "Z", "Z", "Z",
      ",", "Z", "Z", "Z", "Z", "Z", "Z", "Z", ".">>

\* the summary of the task document that is recited
TaskSummary(task_state) ==
    LET key_sections == KeySections(SplitAll(task_state, <<"\n">>), 1)
    IN IF Len(Join(key_sections, <<"\n">>)) < KEY_SECTIONS_MIN
       THEN Take(task_state, RAW_SUMMARY_MAX)
       ELSE Join(Take(key_sections, KEY_LINES_MAX), <<"\n">>)

\* _format_task_recitation
FormatTaskRecitation(task_state) ==
    RECITATION_TITLE \o TaskSummary(task_state) \o RECITATION_REMINDER

META_TITLE == <<"[", "Z", "Z", "Z", "Z", "Z", "Z", "]", "\n">>

USER_INPUT_TITLE == <<"[", "Z", "Z", "Z", "Z", "]", "\n">>

\* the section of the current user input
UserInputSection(user_input) == USER_INPUT_TITLE \o user_input

\* "if text: parts.append(text)"
Present(text) == IF text # <<>> THEN <<text>> ELSE <<>>

\* "if meta_prompt: parts.append(title + meta_prompt)"
Titled(title, text) == IF text # <<>> THEN <<title \o text>> ELSE <<>>

\* "if task_state: parts.append(self._format_task_recitation(task_state))"
Recited(task_state) ==
    IF task_state # <<>> THEN <<FormatTaskRecitation(task_state)>> ELSE <<>>

\* build_optimized_prompt on the task documents fs, the sessions ids and the
\* failure ledger mem at time t
BuildOptimizedPrompt(fs, ids, mem, t, user_input, chat_id, memories, working_memory, include_meta_prompt, claude_md_content) ==
    Join(<<Strip(STATIC_SYSTEM_PREFIX)>>
            \o (IF include_meta_prompt /\ claude_md_content # <<>>
                THEN Titled(META_TITLE, ExtractMetaPrompt(claude_md_content)) ELSE <<>>)
            \o (IF working_memory # <<>>
                THEN Present(FormatWorkingMemory(working_memory)) ELSE <<>>)
            \o (IF memories # <<>>
                THEN Present(FormatRetrievedMemories(memories)) ELSE <<>>)
            \o Present(GetFailureLessons(mem, chat_id, user_input))
            \o <<UserInputSection(user_input)>>
            \o Recited(GetTaskState(fs, ids, chat_id, t)),
         SECTION_SEPARATOR)

\* the template of create_task up to the goal
TASK_TEMPLATE_HEAD ==
    <<"#", " ", "Z", "Z", "Z", "Z", "\n", "\n", "#", "#", " ", "Z", "Z",
      "Z", "Z", "\n">>

\* the template of create_task between the goal and the task id
TASK_TEMPLATE_BODY ==
    <<"\n", "\n", "#", "#", " ", "Z", "Z", "Z", "\n", "-", " ", "[", " ",
      "]", "\n", "\n", "#", "#", " ", "Z", "Z", "Z", "Z", "\n", "-", " ",
      "[", " ", "]", " ", "Z", "Z", "Z", "Z", "\n", "-", " ", "[", " ",
      "]", " ", "Z", "Z", "Z", "Z", "\n", "-", " ", "[", " ", "]", " ",
      "Z", "Z", "Z", "Z", "\n", "-", " ", "[", " ", "]", " ", "Z", "Z",
      "Z", "Z", "\n", "\n", "#", "#", " ", "Z", "Z", "Z", "Z", "\n", "[",
      "Z", "Z", "Z", "]", "\n", "\n", "#", "#", " ", "Z", "Z", "Z", "Z",
      "\n", "[", "Z", "Z", "Z", "]", "\n", "\n", "-", "-", "-", "\n", "Z",
      "Z", "I", "D", ":", " ">>

\* the template of create_task between the task id and the creation time
TASK_TEMPLATE_CREATED == <<"\n", "Z", "Z", "Z", "Z", ":", " ">>

\* the task document create_task writes
TaskTemplate(goal, task_id, t) ==
    TASK_TEMPLATE_HEAD \o goal \o TASK_TEMPLATE_BODY \o task_id
        \o TASK_TEMPLATE_CREATED \o StrfTime(t) \o <<"\n">>

\* f"task_{int(time.time())}"
TimeTaskId(t) == <<"t", "a", "s", "k", "_">> \o DigitsOf(t)

(***************************************************************************)
(* PromptCache (kv_cache.py), as section 4.3 of the specification gives    *)
(* it: entries are found by key and are valid while now < expires_at.      *)
(***************************************************************************)
\* generate_cache_key: deterministic and free of collisions
GenerateCacheKey(static_prefix, user_id) == <<static_prefix, user_id>>

\* whether the cache c holds an entry under cache_key that is valid at time t
ValidEntry(c, cache_key, t) ==
    cache_key \in DOMAIN c /\ t < c[cache_key].expires_at

\* a lookup that does not look at the expiry time
GetCachedPromptStale(c, cache_key, t) ==
    IF cache_key \in DOMAIN c THEN c[cache_key].rendered_text ELSE None

\* get_cached_prompt: the text of a valid entry, None on a miss
GetCachedPrompt(c, cache_key, t) ==
    IF ValidEntry(c, cache_key, t) THEN c[cache_key].rendered_text ELSE None

\* store_prompt: the entry replaces any entry under the key
StorePrompt(c, cache_key, full_prompt, static_prefix, user_id, ttl_seconds, t) ==
    Put(c, cache_key,
        [cache_key |-> cache_key, rendered_text |-> full_prompt,
         static_prefix |-> static_prefix, user_id |-> user_id,
         created_at |-> t, expires_at |-> t + ttl_seconds])

\* the hit and miss counters after a lookup that returned cached
CountLookup(stats, cached) ==
    IF cached # None THEN [stats EXCEPT !.hits = @ + 1]
    ELSE [stats EXCEPT !.misses = @ + 1]

\* the keys found expired, after a lookup of cache_key at time t
NoteExpired(expired, c, cache_key, t) ==
    IF cache_key \in DOMAIN c /\ ~ValidEntry(c, cache_key, t)
    THEN expired \cup {cache_key} ELSE expired

(***************************************************************************)
(* Inputs of the prompt assembler and of the cache.                        *)
(***************************************************************************)
PromptUsers == {<<"u">>, <<"v">>}

\* a goal of one line, and a goal whose second line is an open checkbox
Goals == {<<"g", "o">>, <<"g", "\n", "-", " ", "[", " ", "]">>}

\* the turns built: a user input with no optional argument, and another
\* with a retrieved memory that is a reference, one dialogue turn and a
\* project file with an initial prompt; ttl_seconds is read by
\* build_optimized_prompt_with_cache only
PromptTurns ==
    {[user_input |-> <<"A">>, memories |-> <<>>, working_memory |-> <<>>,
      include_meta_prompt |-> TRUE, claude_md_content |-> <<>>, ttl_seconds |-> 1],
     [user_input |-> <<"B">>,
      memories |-> <<[content |-> <<"m", " ", "(", "s", "e", "e", ":", " ", "f", ")">>]>>,
      working_memory |-> <<<<"w">>>>, include_meta_prompt |-> TRUE,
      claude_md_content |-> META_HEADING \o <<"\n", "i", "\n", "#", "#", " ", "x">>,
      ttl_seconds |-> 2]}

\* the turn that was built with user_input
TurnOf(user_input) == CHOOSE x \in PromptTurns : x.user_input = user_input

Ttls == {1, 2}

CachedTexts == {<<"p">>, <<"q">>}

\* the goals of the tasks created in front of the cache
CachedGoals == {<<"g", "o">>}

\* the failure recorded ahead of a build
PromptFailures == {[action |-> <<"A">>, error |-> <<"E", "r">>]}

(***************************************************************************)
(* Operations of the prompt assembler and of the cache.                    *)
(***************************************************************************)
\* a cache key that leaves the session out
CacheKeyShared(chat_id) == GenerateCacheKey(STATIC_SYSTEM_PREFIX, <<>>)

\* the cache key build_optimized_prompt_with_cache computes for a session
CacheKeyOf(chat_id) == GenerateCacheKey(STATIC_SYSTEM_PREFIX, chat_id)

\* a lookup that is never taken for a hit
CacheHitNever(cached_prompt) == FALSE

\* "if cached_prompt:" of build_optimized_prompt_with_cache
CacheHit(cached_prompt) == cached_prompt # None /\ cached_prompt # <<>>

\* create_task with the default task id
CreateTask(chat_id, goal) ==
    LET task_id == TimeTaskId(now)
    IN /\ \/ TodoPath(chat_id, task_id) \in DOMAIN files
          \/ Cardinality(DOMAIN files) < MaxTasks
       /\ session_task_ids' = Put(session_task_ids, chat_id, task_id)
       /\ dirs' = GetUserDir(dirs, chat_id)
       /\ files' = UpdateTodoMd(files, chat_id, TaskTemplate(goal, task_id, now),
                                task_id, FALSE, now)
       /\ task_goals' = Put(task_goals, chat_id, goal)
       /\ ret' = [op |-> "create_task", chat_id |-> chat_id, goal |-> goal,
                  val |-> task_id]
       /\ UNCHANGED <<now, index, hashed, refs, ledgerVars, cache, cache_puts,
                      cache_expired, cache_stats, raceVars, bridge>>

\* build_optimized_prompt
Build(chat_id, x) ==
    /\ ret' = [op |-> "build", user_input |-> x.user_input, chat_id |-> chat_id,
               text |-> BuildOptimizedPrompt(files, session_task_ids, memory, now,
                            x.user_input, chat_id, x.memories, x.working_memory,
                            x.include_meta_prompt, x.claude_md_content)]
    /\ dirs' = GetUserDir(dirs, chat_id)
    /\ UNCHANGED <<now, index, files, hashed, refs, ledgerVars, promptVars, raceVars, bridge>>

\* the hit of build_optimized_prompt_with_cache: the cached text is returned
ReturnCached(chat_id, x, cache_key, cached_prompt) ==
    /\ ret' = [op |-> "build_with_cache", user_input |-> x.user_input,
               chat_id |-> chat_id, ttl_seconds |-> x.ttl_seconds,
               text |-> cached_prompt, cache_hit |-> TRUE,
               stored_by |-> cache[cache_key].user_id]
    /\ cache_expired' = NoteExpired(cache_expired, cache, cache_key, now)
    /\ UNCHANGED <<cache, cache_puts, dirs>>

\* the miss of build_optimized_prompt_with_cache: prompt is built, stored and
\* returned
StoreBuilt(chat_id, x, cache_key, prompt) ==
    /\ cache' = StorePrompt(cache, cache_key, prompt, STATIC_SYSTEM_PREFIX, chat_id,
                            x.ttl_seconds, now)
    /\ cache_puts' = Put(cache_puts, cache_key,
                         [text |-> prompt, at |-> now, ttl_seconds |-> x.ttl_seconds])
    /\ cache_expired' = cache_expired \ {cache_key}
    /\ dirs' = GetUserDir(dirs, chat_id)
    /\ ret' = [op |-> "build_with_cache", user_input |-> x.user_input,
               chat_id |-> chat_id, ttl_seconds |-> x.ttl_seconds,
               text |-> prompt, cache_hit |-> FALSE, stored_by |-> chat_id]

\* the lookup of build_optimized_prompt_with_cache and what follows it
LookedUp(chat_id, x, cache_key, cached_prompt) ==
    /\ cache_stats' = CountLookup(cache_stats, cached_prompt)
    /\ IF CacheHit(cached_prompt)
       THEN ReturnCached(chat_id, x, cache_key, cached_prompt)
       ELSE StoreBuilt(chat_id, x, cache_key,
                       BuildOptimizedPrompt(files, session_task_ids, memory, now,
                           x.user_input, chat_id, x.memories, x.working_memory,
                           x.include_meta_prompt, x.claude_md_content))

\* build_optimized_prompt_with_cache
BuildWithCache(chat_id, x) ==
    /\ cache_stats.hits + cache_stats.misses < MaxLookups
    /\ LookedUp(chat_id, x, CacheKeyOf(chat_id),
                GetCachedPrompt(cache, CacheKeyOf(chat_id), now))
    /\ UNCHANGED <<now, index, files, hashed, refs, ledgerVars, session_task_ids,
                   task_goals, raceVars, bridge>>

\* store_prompt called on the cache
StorePromptCall(user_id, full_prompt, ttl_seconds) ==
    LET cache_key == GenerateCacheKey(STATIC_SYSTEM_PREFIX, user_id)
    IN /\ cache' = StorePrompt(cache, cache_key, full_prompt, STATIC_SYSTEM_PREFIX,
                               user_id, ttl_seconds, now)
       /\ cache_puts' = Put(cache_puts, cache_key,
                            [text |-> full_prompt, at |-> now,
                             ttl_seconds |-> ttl_seconds])
       /\ cache_expired' = cache_expired \ {cache_key}
       /\ ret' = [op |-> "store_prompt", cache_key |-> cache_key, val |-> TRUE]
       /\ UNCHANGED <<now, storeVars, ledgerVars, session_task_ids, task_goals,
                      cache_stats, raceVars, bridge>>

\* get_cached_prompt called on the cache
GetCachedPromptCall(user_id) ==
    LET cache_key == GenerateCacheKey(STATIC_SYSTEM_PREFIX, user_id)
        cached == GetCachedPrompt(cache, cache_key, now)
    IN /\ cache_stats.hits + cache_stats.misses < MaxLookups
       /\ cache_stats' = CountLookup(cache_stats, cached)
       /\ cache_expired' = NoteExpired(cache_expired, cache, cache_key, now)
       /\ ret' = [op |-> "get_cached_prompt", cache_key |-> cache_key,
                  val |-> cached]
       /\ UNCHANGED <<now, storeVars, ledgerVars, session_task_ids, task_goals,
                      cache, cache_puts, raceVars, bridge>>

\* the assembler without the cache
NextPrompt ==
    \/ \E u \in PromptUsers, g \in Goals : CreateTask(u, g)
    \/ \E u \in PromptUsers, x \in PromptTurns : Build(u, x)
    \/ \E u \in LedgerUsers, f \in PromptFailures :
          mem_next <= MaxRecorded /\ RecordFailure(u, f.action, f.error, <<>>, <<>>)
    \/ Tick

SpecPrompt == Init /\ [][NextPrompt]_vars

\* the assembler in front of the cache
NextCachedPrompt ==
    \/ \E u \in LedgerUsers, g \in CachedGoals : CreateTask(u, g)
    \/ \E u \in LedgerUsers, x \in PromptTurns : Build(u, x)
    \/ \E u \in PromptUsers, x \in PromptTurns : BuildWithCache(u, x)
    \/ Tick

SpecCachedPrompt == Init /\ [][NextCachedPrompt]_vars

\* the cache on its own
NextCache ==
    \/ \E u \in PromptUsers, p \in CachedTexts, ttl \in Ttls : StorePromptCall(u, p, ttl)
    \/ \E u \in PromptUsers : GetCachedPromptCall(u)
    \/ Tick

SpecCache == Init /\ [][NextCache]_vars

(***************************************************************************)
(* Claims about the prompt assembler and the prompt cache.                 *)
(***************************************************************************)
\* the sections of an assembled prompt
Sections(text) == SplitAll(text, SECTION_SEPARATOR)

\* C4: after create_task(user, G), build(user_input, user) returns a text
\* whose last section is the task recitation, that section contains G
\* literally, and the user-input section comes before it.
C4_GoalRecited ==
    (ret.op = "build" /\ ret.chat_id \in DOMAIN task_goals) =>
        LET sections == Sections(ret.text)
            last == sections[Len(sections)]
        IN /\ StartsWith(last, RECITATION_TITLE)
           /\ Contains(last, task_goals[ret.chat_id])
           /\ \E k \in 1..(Len(sections) - 1) :
                 sections[k] = UserInputSection(ret.user_input)

\* C7: get_cached_prompt(key) returns the text of the latest store_prompt of
\* the key exactly while now < expires_at of that store; otherwise it is a
\* miss, and a key that a lookup has found expired is a miss until the next
\* store_prompt of the key.
C7_TtlExpiry ==
    [][(ret'.op = "get_cached_prompt" /\ cache_stats' # cache_stats) =>
          LET k == ret'.cache_key
              live == /\ k \in DOMAIN cache_puts
                      /\ now < cache_puts[k].at + cache_puts[k].ttl_seconds
          IN /\ live => ret'.val = cache_puts[k].text
             /\ ~live => ret'.val = None
             /\ k \in cache_expired => ret'.val = None]_vars

\* a lookup found the stored entry of its key expired and returned a miss
C7_Witness ==
    /\ ret.op = "get_cached_prompt"
    /\ ret.val = None
    /\ ret.cache_key \in DOMAIN cache_puts
    /\ ret.cache_key \in cache_expired
    /\ now >= cache_puts[ret.cache_key].at + cache_puts[ret.cache_key].ttl_seconds

\* C8: build_optimized_prompt_with_cache for user u returns the cached text
\* with cache_hit = true when the cache holds an unexpired entry under
\* key(static_prefix, u); otherwise it returns the freshly built text with
\* cache_hit = false and has stored it under that key with the given ttl.
C8_HitMissProtocol ==
    [][(ret'.op = "build_with_cache" /\ cache_stats' # cache_stats) =>
          LET key == GenerateCacheKey(STATIC_SYSTEM_PREFIX, ret'.chat_id)
              x == TurnOf(ret'.user_input)
          IN IF ValidEntry(cache, key, now)
             THEN /\ ret'.cache_hit
                  /\ ret'.text = cache[key].rendered_text
                  /\ cache' = cache
             ELSE /\ ~ret'.cache_hit
                  /\ ret'.text = BuildOptimizedPrompt(files, session_task_ids, memory,
                                     now, x.user_input, ret'.chat_id, x.memories,
                                     x.working_memory, x.include_meta_prompt,
                                     x.claude_md_content)
                  /\ key \in DOMAIN cache'
                  /\ cache'[key].rendered_text = ret'.text
                  /\ cache'[key].expires_at = now + ret'.ttl_seconds]_vars

\* the second of two calls for a user within the ttl: a hit that returns the
\* text the miss before it has stored
C8_Witness ==
    /\ ret.op = "build_with_cache"
    /\ ret.cache_hit
    /\ cache_stats.misses >= 1
    /\ CacheKeyOf(ret.chat_id) \in DOMAIN cache_puts
    /\ ret.text = cache_puts[CacheKeyOf(ret.chat_id)].text
    /\ now < cache_puts[CacheKeyOf(ret.chat_id)].at
                + cache_puts[CacheKeyOf(ret.chat_id)].ttl_seconds

\* C9: the text returned by build_optimized_prompt and by
\* build_optimized_prompt_with_cache, hit or miss, has a user-input section
\* that holds the user_input of the call verbatim.
C9_InputPresent ==
    ret.op \in {"build", "build_with_cache"} =>
        \E k \in 1..Len(Sections(ret.text)) :
            Sections(ret.text)[k] = UserInputSection(ret.user_input)

\* C10: the cache keys of different users differ, and
\* build_optimized_prompt_with_cache for a user never returns a text that a
\* call for another user has built and stored.
C10_Isolation ==
    /\ \A u \in PromptUsers, v \in PromptUsers :
          (CacheKeyOf(u) = CacheKeyOf(v)) <=> (u = v)
    /\ ret.op = "build_with_cache" => ret.stored_by = ret.chat_id

\* a user is served a cached text while the cache holds a valid entry with
\* another text that another user has stored
C10_Witness ==
    /\ ret.op = "build_with_cache"
    /\ ret.cache_hit
    /\ \E k \in DOMAIN cache :
          /\ cache[k].user_id # ret.chat_id
          /\ ValidEntry(cache, k, now)
          /\ cache[k].rendered_text # ret.text

(***************************************************************************)
(* Task documents and artifacts of several users.                          *)
(***************************************************************************)
MaxDocs == 2

MaxAppends == 1

\* two user ids that differ in one character outside [\w\-_.], and a third
IsolationUsers == {<<"a", " ", "b">>, <<"a", "_", "b">>, <<"u">>}

TaskIds == {DEFAULT_TASK_ID, <<"t">>}

TodoContents == {<<"p">>}

UPDATED_MARK == <<"*", "U", "p", "d", "a", "t", "e", "d", ":">>

\* the task documents among the files
TodoDocs(fs) ==
    {p \in DOMAIN fs : \E u \in IsolationUsers, k \in TaskIds : p = TodoPath(u, k)}

\* get_todo_md
GetTodo(user_id, task_id) ==
    /\ dirs' = GetUserDir(dirs, user_id)
    /\ ret' = [op |-> "get_todo_md", user_id |-> user_id, task_id |-> task_id,
               val |-> GetTodoMd(files, user_id, task_id, now)]
    /\ UNCHANGED <<now, index, files, hashed, refs, ledgerVars, promptVars, raceVars, bridge>>

\* update_todo_md; written is FALSE when reading or writing the document
\* raises, which the handler catches and reports as False
UpdateTodo(user_id, content, task_id, append, written) ==
    /\ \/ TodoPath(user_id, task_id) \in DOMAIN files
       \/ Cardinality(TodoDocs(files)) < MaxDocs
    /\ dirs' = GetUserDir(dirs, user_id)
    /\ files' = IF written
                THEN UpdateTodoMd(files, user_id, content, task_id, append, now)
                ELSE files
    /\ written =>
          Cardinality(Occurrences(files'[TodoPath(user_id, task_id)], UPDATED_MARK, 1))
              <= MaxAppends
    /\ ret' = [op |-> "update_todo_md", user_id |-> user_id, task_id |-> task_id,
               content |-> content, append |-> append, val |-> written]
    /\ UNCHANGED <<now, index, hashed, refs, ledgerVars, promptVars, raceVars, bridge>>

NextIsolation ==
    \/ \E u \in IsolationUsers, k \in TaskIds : GetTodo(u, k)
    \/ \E u \in IsolationUsers, c \in TodoContents, k \in TaskIds, a \in BOOLEAN, w \in BOOLEAN :
          UpdateTodo(u, c, k, a, w)
    \/ \E t \in StoreTypes : StoreLargeContent(<<"a", " ", "b">>, <<"x">>, t, <<>>)
    \/ Tick

SpecIsolation == Init /\ [][NextIsolation]_vars

\* C11: storage isolation between users: for any two distinct user ids u and
\* v and any task ids, an update_todo_md of u leaves the document that
\* get_todo_md returns for v as it was, and the file a store_large_content of
\* u writes is not inside the storage directory of v.
C11_StorageIsolation ==
    [][/\ (ret' # ret /\ ret'.op = "update_todo_md")
            => \A v \in IsolationUsers \ {ret'.user_id} : \A k \in TaskIds :
                  GetTodoMd(files', v, k, now') = GetTodoMd(files, v, k, now)
       /\ \A r \in refs' \ refs : \A v \in IsolationUsers \ {r.user_id} :
             ~StartsWith(r.ref.file_path, UserDir(v) \o <<"/">>)]_vars

(***************************************************************************)
(* cleanup_old_files, and the store operations split at their index read   *)
(* and index write (external_memory.py has no lock around them).           *)
(***************************************************************************)
MaxRetention == 1

Without(f, k) == [x \in DOMAIN f \ {k} |-> f[x]]

\* Path.parent
ParentOf(path) ==
    SubSeq(path, 1, (CHOOSE i \in 1..Len(path) :
                        /\ path[i] = "/"
                        /\ \A j \in (i + 1)..Len(path) : path[j] # "/") - 1)

\* not any(parent.iterdir())
IsEmptyDir(fs, ds, parent) ==
    ~\E p \in DOMAIN fs \cup ds : Len(p) > Len(parent) /\ ParentOf(p) = parent

\* index["refs"].items(): a dict keeps its keys in the order of their first
\* insertion, which is the order of the tokens of the ideal hash
RefOrder(idx) ==
    LET n == Cardinality(DOMAIN idx)
    IN CHOOSE s \in [1..n -> DOMAIN idx] :
          /\ \A i, j \in 1..n : i < j => ParseInt(Drop(s[i], 1)) < ParseInt(Drop(s[j], 1))

\* what can raise inside the try block of one entry of the sweep
FaultKinds == {"none", "unlink", "rmdir"}

\* one pass of the loop of cleanup_old_files over an index entry: st is the
\* files, the directories, refs_to_remove and the statistics so far
SweepOne(st, idx, ref_id, cutoff, fault) ==
    LET file_path == idx[ref_id].file_path
        parent == ParentOf(file_path)
        exists == file_path \in DOMAIN st.fs
        unlinked == IF exists
                    THEN [st EXCEPT !.fs = Without(st.fs, file_path),
                                    !.deleted_bytes = @ + Len(st.fs[file_path]),
                                    !.deleted_files = @ + 1]
                    ELSE st
        empty == parent \in st.ds /\ IsEmptyDir(unlinked.fs, st.ds, parent)
    IN IF ~(idx[ref_id].created_at < cutoff) THEN st
       ELSE IF exists /\ fault = "unlink" THEN st
       ELSE IF empty /\ fault = "rmdir" THEN unlinked
       ELSE [unlinked EXCEPT !.ds = IF empty THEN @ \ {parent} ELSE @,
                             !.removed = Append(@, ref_id)]

RECURSIVE SweepLoop(_, _, _, _, _, _)
SweepLoop(st, idx, order, i, cutoff, faults) ==
    IF i > Len(order) THEN st
    ELSE SweepLoop(SweepOne(st, idx, order[i], cutoff, faults[order[i]]),
                   idx, order, i + 1, cutoff, faults)

\* the loop of cleanup_old_files over the index it has read
Sweep(idx, fs, ds, cutoff, faults) ==
    SweepLoop([fs |-> fs, ds |-> ds, removed |-> <<>>, deleted_files |-> 0,
               deleted_bytes |-> 0],
              idx, RefOrder(idx), 1, cutoff, faults)

\* del index["refs"][ref_id] for the refs_to_remove
RemoveRefs(idx, removed) ==
    [r \in DOMAIN idx \ {removed[i] : i \in 1..Len(removed)} |-> idx[r]]

\* a cutoff that also takes the records created at now - retention_days
CutoffInclusive(t, retention_days) == t - retention_days + 1

\* datetime.now() - timedelta(days=retention_days)
Cutoff(t, retention_days) == t - retention_days

Threads == {1, 2}

RaceContents == {<<"x">>, <<"y">>}

InFlight(op) == {p \in DOMAIN inflight : inflight[p].op = op}

\* store_large_content up to the index update: the artifact file is written
StoreWrite(p, user_id, content_in, content_type, metadata) ==
    /\ p \notin DOMAIN inflight
    /\ Cardinality(refs) + Cardinality(InFlight("store")) < MaxStores
    /\ ~IsBlank(content_in)
    /\ LET content == Strip(content_in)
           data == RefIdData(user_id, content, content_type, now)
           ref_id == HashToken(data, hashed)
           file_path == FilePath(user_id, content_type, now, ref_id)
       IN /\ hashed' = HashRegister(data, hashed)
          /\ dirs' = GetUserDir(dirs, user_id) \cup {TypeDir(user_id, content_type)}
          /\ files' = Put(files, file_path,
                          Header(ref_id, user_id, content_type, now, metadata)
                              \o content)
          /\ inflight' = Put(inflight, p,
                 [op |-> "store", pc |-> "read", user_id |-> user_id,
                  content |-> content_in,
                  ref |-> [ref_id |-> ref_id, content_type |-> content_type,
                           file_path |-> file_path,
                           summary |-> GenerateSummary(content),
                           created_at |-> now, size_bytes |-> Len(content),
                           metadata |-> metadata]])
    /\ UNCHANGED <<now, bridge, index, refs, ledgerVars, promptVars, cutoffs, ret>>

\* index = self._get_index()
ReadIndex(p) ==
    /\ p \in DOMAIN inflight
    /\ inflight[p].pc = "read"
    /\ inflight' = [inflight EXCEPT ![p] =
                       [q \in DOMAIN @ \cup {"index"} |->
                           IF q = "index" THEN index
                           ELSE IF q = "pc"
                                THEN (IF @.op = "store" THEN "save" ELSE "sweep")
                                ELSE @[q]]]
    /\ UNCHANGED <<now, bridge, storeVars, ledgerVars, promptVars, cutoffs, ret>>

\* store_large_content from the entry put into the index it has read to
\* _save_index and the return of the reference
StoreSave(p) ==
    /\ p \in InFlight("store")
    /\ inflight[p].pc = "save"
    /\ index' = Put(inflight[p].index, inflight[p].ref.ref_id,
                    [user_id |-> inflight[p].user_id,
                     file_path |-> inflight[p].ref.file_path,
                     created_at |-> inflight[p].ref.created_at,
                     content_type |-> inflight[p].ref.content_type])
    /\ refs' = refs \cup {[ref |-> inflight[p].ref, user_id |-> inflight[p].user_id,
                           content |-> inflight[p].content]}
    /\ ret' = [op |-> "store_large_content", raised |-> "",
               content |-> inflight[p].content, ref |-> inflight[p].ref]
    /\ inflight' = Without(inflight, p)
    /\ UNCHANGED <<now, bridge, files, dirs, hashed, ledgerVars, promptVars, cutoffs>>

\* cleanup_old_files up to the index read: the cutoff is computed
CleanupBegin(p, retention_days) ==
    /\ p \notin DOMAIN inflight
    /\ InFlight("cleanup") = {}
    /\ inflight' = Put(inflight, p, [op |-> "cleanup", pc |-> "read",
                                     cutoff |-> Cutoff(now, retention_days)])
    /\ cutoffs' = cutoffs \cup {Cutoff(now, retention_days)}
    /\ UNCHANGED <<now, bridge, storeVars, ledgerVars, promptVars, ret>>

\* the loop of cleanup_old_files
CleanupSweep(p, faults) ==
    /\ p \in InFlight("cleanup")
    /\ inflight[p].pc = "sweep"
    /\ LET st == Sweep(inflight[p].index, files, dirs, inflight[p].cutoff, faults)
       IN /\ files' = st.fs
          /\ dirs' = st.ds
          /\ inflight' = [inflight EXCEPT ![p] =
                 [op |-> "cleanup", pc |-> "save", index |-> @.index,
                  removed |-> st.removed,
                  stats |-> [deleted_files |-> st.deleted_files,
                             deleted_bytes |-> st.deleted_bytes]]]
    /\ UNCHANGED <<now, bridge, index, hashed, refs, ledgerVars, promptVars, cutoffs, ret>>

\* the index update that ends cleanup_old_files
CleanupSave(p) ==
    /\ p \in InFlight("cleanup")
    /\ inflight[p].pc = "save"
    /\ index' = RemoveRefs(inflight[p].index, inflight[p].removed)
    /\ ret' = [op |-> "cleanup_old_files", val |-> inflight[p].stats]
    /\ inflight' = Without(inflight, p)
    /\ UNCHANGED <<now, bridge, files, dirs, hashed, refs, ledgerVars, promptVars, cutoffs>>

NoFaults(idx) == [r \in DOMAIN idx |-> "none"]

NextRace ==
    \/ \E p \in Threads, u \in LedgerUsers, c \in RaceContents, t \in StoreTypes :
          StoreWrite(p, u, c, t, <<>>)
    \/ \E p \in Threads : ReadIndex(p)
    \/ \E p \in Threads : StoreSave(p)
    \/ \E p \in Threads, d \in 0..MaxRetention : CleanupBegin(p, d)
    \/ \E p \in Threads : CleanupSweep(p, NoFaults(inflight[p].index))
    \/ \E p \in Threads : CleanupSave(p)
    \/ Tick

SpecRace == Init /\ [][NextRace]_vars

\* C12: no lost index update: once the store operations that ran at the same
\* time have all returned, every record whose store call returned and that
\* is not older than the cutoff of any sweep is in the index and
\* retrieve_content returns its content.
C12_NoLostUpdate ==
    inflight = <<>> =>
        \A r \in refs :
            (\A c \in cutoffs : ~(r.ref.created_at < c))
                => /\ r.ref.ref_id \in DOMAIN index
                   /\ RetrieveContentOf(index, files, r.ref.ref_id) # None

(***************************************************************************)
(* record_failure split at its calls of the memory index (failure_memory.py *)
(* has no lock around them).                                               *)
(***************************************************************************)
MaxRacingCalls == 3

RacingFailures == {[action |-> <<"B", "u">>, error |-> <<"E", "r">>]}

\* the calls that have returned
Returned(c) ==
    LET RECURSIVE Sum(_)
        Sum(S) == IF S = {} THEN 0
                  ELSE LET k == CHOOSE k \in S : TRUE IN c[k] + Sum(S \ {k})
    IN Sum(DOMAIN c)

\* record_failure up to the outcome of _find_similar_failure
RecordLookup(p, user_id, action, error_message, context, lesson) ==
    /\ p \notin DOMAIN inflight
    /\ Returned(calls) + Cardinality(InFlight("record")) < MaxRacingCalls
    /\ LET similar == FindSimilarFailure(memory, user_id, action, error_message)
       IN inflight' = Put(inflight, p,
              [op |-> "record", pc |-> IF similar # NoRecord THEN "read" ELSE "new",
               user_id |-> user_id, action |-> action, error |-> error_message,
               context |-> context, lesson |-> lesson, similar |-> similar])
    /\ UNCHANGED <<now, bridge, storeVars, ledgerVars, promptVars, cutoffs, ret>>

\* the record_failure of p returns record
RecordReturn(p, path, record) ==
    /\ calls' = Put(calls, <<inflight[p].user_id,
                             Signature(inflight[p].action, inflight[p].error)>>,
                    Count(calls, <<inflight[p].user_id,
                                   Signature(inflight[p].action, inflight[p].error)>>) + 1)
    /\ ret' = [op |-> "record_failure", path |-> path,
               user_id |-> inflight[p].user_id, context |-> inflight[p].context,
               before |-> inflight[p].similar, record |-> record]
    /\ inflight' = Without(inflight, p)

\* the first-occurrence path: the record is created and added
RecordAddNew(p) ==
    /\ p \in InFlight("record")
    /\ inflight[p].pc = "new"
    /\ LET data == FailureIdData(inflight[p].user_id, inflight[p].action,
                                 inflight[p].error, now)
           record == NewRecord(HashToken(data, hashed), inflight[p].user_id,
                               inflight[p].action, inflight[p].error,
                               inflight[p].context, inflight[p].lesson, now)
       IN /\ memory' = MemoryAdd(memory, mem_next, inflight[p].user_id,
                                 FormatForStorage(record), MetadataOf(record), now)
          /\ hashed' = HashRegister(data, hashed)
          /\ RecordReturn(p, "new", record)
    /\ mem_next' = mem_next + 1
    /\ UNCHANGED <<now, bridge, index, files, dirs, refs, promptVars, cutoffs>>

\* the recurrence path up to the get_by_type of _update_failure: the count
\* is incremented on the record found, and the item holding it is looked up
UpdateRead(p) ==
    /\ p \in InFlight("record")
    /\ inflight[p].pc = "read"
    /\ LET record == RecurrenceRecord(inflight[p].similar, inflight[p].context, now)
           memories == GetByType(memory, inflight[p].user_id, UPDATE_LIMIT)
           hit == {i \in 1..Len(memories) :
                      memories[i].metadata.failure_id = record.failure_id}
       IN inflight' = [inflight EXCEPT ![p] =
              [op |-> "record", pc |-> IF hit = {} THEN "add" ELSE "delete",
               user_id |-> @.user_id, action |-> @.action, error |-> @.error,
               context |-> @.context, lesson |-> @.lesson, similar |-> @.similar,
               record |-> record,
               item |-> IF hit = {} THEN 0 ELSE memories[MinOf(hit)].id]]
    /\ UNCHANGED <<now, bridge, storeVars, ledgerVars, promptVars, cutoffs, ret>>

\* self._memory.delete(user_id, mem["id"])
UpdateDelete(p) ==
    /\ p \in InFlight("record")
    /\ inflight[p].pc = "delete"
    /\ memory' = MemoryDelete(memory, inflight[p].user_id, inflight[p].item)
    /\ inflight' = [inflight EXCEPT ![p].pc = "add"]
    /\ UNCHANGED <<now, bridge, storeVars, mem_next, calls, promptVars, cutoffs, ret>>

\* the add that ends _update_failure, and the return of record_failure
UpdateAdd(p) ==
    /\ p \in InFlight("record")
    /\ inflight[p].pc = "add"
    /\ memory' = MemoryAdd(memory, mem_next, inflight[p].user_id,
                           FormatForStorage(inflight[p].record),
                           MetadataOf(inflight[p].record), now)
    /\ mem_next' = mem_next + 1
    /\ RecordReturn(p, "update", inflight[p].record)
    /\ UNCHANGED <<now, bridge, storeVars, promptVars, cutoffs>>

NextLedgerRace ==
    \/ \E p \in Threads, u \in LedgerUsers, f \in RacingFailures, n \in LedgerNotes :
          RecordLookup(p, u, f.action, f.error, n.context, n.lesson)
    \/ \E p \in Threads : RecordAddNew(p)
    \/ \E p \in Threads : UpdateRead(p)
    \/ \E p \in Threads : UpdateDelete(p)
    \/ \E p \in Threads : UpdateAdd(p)
    \/ Tick

SpecLedgerRace == Init /\ [][NextLedgerRace]_vars

\* C13: no duplicate failure record: once the record_failure calls of a user
\* that ran at the same time with the same (action, error_message) have all
\* returned, the ledger holds exactly one record of that signature and its
\* recurrence_count is the number of the calls.
C13_NoDuplicate ==
    inflight = <<>> =>
        \A key \in DOMAIN calls :
            /\ Cardinality(WithSignature(memory, key[1], key[2])) = 1
            /\ \A i \in WithSignature(memory, key[1], key[2]) :
                  GetUserFailures(memory, key[1], FALSE, DEFAULT_LIMIT)[i].recurrence_count
                      = calls[key]

(***************************************************************************)
(* The reference store with its retention sweep, one call after another.   *)
(***************************************************************************)
\* cleanup_old_files; faults names, for every index entry, what raises
\* inside the try block of its pass of the loop
CleanupOldFiles(retention_days, faults) ==
    /\ LET st == Sweep(index, files, dirs, Cutoff(now, retention_days), faults)
       IN /\ files' = st.fs
          /\ dirs' = st.ds
          /\ index' = RemoveRefs(index, st.removed)
          /\ ret' = [op |-> "cleanup_old_files", faults |-> faults,
                     retention_days |-> retention_days, removed |-> st.removed,
                     val |-> [deleted_files |-> st.deleted_files,
                              deleted_bytes |-> st.deleted_bytes]]
    /\ cutoffs' = cutoffs \cup {Cutoff(now, retention_days)}
    /\ UNCHANGED <<now, bridge, hashed, refs, ledgerVars, promptVars, inflight>>

SweepContents == {<<"x">>, <<"y">>, <<" ">>}

NextSweep ==
    \/ \E u \in LedgerUsers, c \in SweepContents, t \in StoreTypes :
          StoreLargeContent(u, c, t, <<>>)
    \/ \E d \in 0..MaxRetention, faults \in [DOMAIN index -> FaultKinds] :
          CleanupOldFiles(d, faults)
    \/ \E r \in refs : RetrieveContent(r)
    \/ Tick

SpecSweep == Init /\ [][NextSweep]_vars

\* C14: index/artifact consistency: after any sequence of store_large_content
\* and cleanup_old_files calls, also when the unlink or the rmdir of a sweep
\* raises, every index entry names an existing artifact file and every
\* artifact file the store has written and that still exists has an index
\* entry.
C14_IndexArtifactConsistency ==
    /\ \A r \in DOMAIN index : index[r].file_path \in DOMAIN files
    /\ \A s \in refs :
          s.ref.file_path \in DOMAIN files
              => \E r \in DOMAIN index : index[r].file_path = s.ref.file_path

(***************************************************************************)
(* Stores of contents that agree in their first REF_PREFIX characters.     *)
(***************************************************************************)
\* two contents with the same first 100 characters, and two short ones
UniqueContents ==
    {Rep("a", REF_PREFIX) \o <<"x">>, Rep("a", REF_PREFIX) \o <<"y">>, <<"z">>,
     <<"w">>}

NextUnique ==
    \/ \E u \in LedgerUsers, c \in UniqueContents, t \in StoreTypes :
          StoreLargeContent(u, c, t, <<>>)
    \/ \E r \in refs : RetrieveContent(r)
    \/ Tick

SpecUnique == Init /\ [][NextUnique]_vars

\* C15: reference ids are unique: the references returned by two stores have
\* different ref_ids and different storage locations, also when the stores
\* agree in user_id, content_type, the first 100 characters of the content
\* and the clock value; without a purge the index has one entry per store and
\* every stored content is retrieved by its own ref_id.
C15_UniqueRefIds ==
    /\ \A r1, r2 \in refs :
          r1 # r2 => /\ r1.ref.ref_id # r2.ref.ref_id
                     /\ r1.ref.file_path # r2.ref.file_path
    /\ Cardinality(DOMAIN index) = Cardinality(refs)
    /\ \A r \in refs : RetrieveContentOf(index, files, r.ref.ref_id) = r.content

(***************************************************************************)
(* Stores of blank contents between stores and sweeps.                     *)
(***************************************************************************)
BlankContents == {<<>>, <<" ">>, <<"\n", "\t", " ">>}

NextValidate ==
    \/ \E u \in LedgerUsers, c \in BlankContents \cup RaceContents, t \in StoreTypes :
          StoreLargeContent(u, c, t, <<>>)
    \/ \E d \in 0..MaxRetention : CleanupOldFiles(d, NoFaults(index))
    \/ Tick

SpecValidate == Init /\ [][NextValidate]_vars

\* empty, or nothing but whitespace
OnlyWhitespace(content) == \A i \in 1..Len(content) : IsSpace(content[i])

\* C16: empty content is rejected without effect: store_large_content with a
\* content that is empty or only whitespace raises the validation error, and
\* the index, the artifact files and the storage directories are after the
\* call what they were before it.
C16_EmptyRejected ==
    [][(ret' # ret /\ ret'.op = "store_large_content" /\ OnlyWhitespace(ret'.content))
          => /\ ret'.raised = "ValueError"
             /\ UNCHANGED <<index, files, dirs>>]_vars

\* a whitespace content has been rejected by a store that holds an artifact
C16_Witness ==
    /\ ret.op = "store_large_content"
    /\ ret.content = <<" ">>
    /\ ret.raised = "ValueError"
    /\ index # <<>>
    /\ files # <<>>

(***************************************************************************)
(* The failure ledger when a call of the memory index raises.              *)
(***************************************************************************)
MaxFaultyCalls == 2

MARK_LIMIT == 100

\* the calls of the memory index within record_failure and mark_resolved:
\* the get_by_type of the lookup, the add of a new record, and the
\* get_by_type, delete and add of _update_failure
FaultSites == {"none", "lookup", "new_add", "update_get", "update_delete", "update_add"}

\* the item of the record that _update_failure deletes, 0 when there is none
StoredItem(mem, user_id, record) ==
    LET memories == GetByType(mem, user_id, UPDATE_LIMIT)
        hit == {i \in 1..Len(memories) :
                   memories[i].metadata.failure_id = record.failure_id}
    IN IF hit = {} THEN 0 ELSE memories[MinOf(hit)].id

\* _update_failure returns True: nothing raised inside its try block
UpdateOk(mem, user_id, record, fault) ==
    /\ fault # "update_get"
    /\ fault = "update_delete" => StoredItem(mem, user_id, record) = 0
    /\ fault # "update_add"

\* _update_failure when the call of the memory index named by fault raises:
\* the except branch keeps what was done before it
UpdateFailureWith(mem, id, user_id, record, t, fault) ==
    IF fault = "update_get" THEN mem
    ELSE IF fault = "update_delete" /\ StoredItem(mem, user_id, record) # 0 THEN mem
    ELSE IF fault = "update_add"
    THEN MemoryDelete(mem, user_id, StoredItem(mem, user_id, record))
    ELSE UpdateFailure(mem, id, user_id, record, t)

\* the outcome of a call that an exception leaves
Raised(op, user_id, fault, n) ==
    [op |-> op, user_id |-> user_id, fault |-> fault, n |-> n,
     raised |-> "Exception", record |-> NoRecord]

\* record_failure when the call of the memory index named by fault raises
RecordFailureWith(user_id, action, error_message, context, lesson, fault) ==
    /\ Returned(calls) < MaxFaultyCalls
    /\ calls' = Put(calls, <<user_id, Signature(action, error_message)>>,
                    Count(calls, <<user_id, Signature(action, error_message)>>) + 1)
    /\ IF fault = "lookup"
       THEN /\ ret' = Raised("record_failure", user_id, fault, Returned(calls))
            /\ UNCHANGED <<memory, mem_next, hashed>>
       ELSE IF FindSimilarFailure(memory, user_id, action, error_message) # NoRecord
       THEN LET record == RecurrenceRecord(
                              FindSimilarFailure(memory, user_id, action, error_message),
                              context, now)
            IN /\ memory' = UpdateFailureWith(memory, mem_next, user_id, record, now, fault)
               /\ mem_next' = mem_next + 1
               /\ hashed' = hashed
               /\ ret' = [op |-> "record_failure", user_id |-> user_id,
                          fault |-> fault, n |-> Returned(calls), raised |-> "",
                          record |-> record]
       ELSE LET data == FailureIdData(user_id, action, error_message, now)
                record == NewRecord(HashToken(data, hashed), user_id, action,
                                    error_message, context, lesson, now)
            IN /\ hashed' = HashRegister(data, hashed)
               /\ mem_next' = mem_next + 1
               /\ IF fault = "new_add"
                  THEN /\ memory' = memory
                       /\ ret' = Raised("record_failure", user_id, fault, Returned(calls))
                  ELSE /\ memory' = MemoryAdd(memory, mem_next, user_id,
                                              FormatForStorage(record),
                                              MetadataOf(record), now)
                       /\ ret' = [op |-> "record_failure", user_id |-> user_id,
                                  fault |-> fault, n |-> Returned(calls),
                                  raised |-> "", record |-> record]
    /\ UNCHANGED <<now, index, files, dirs, refs, promptVars, raceVars, bridge>>

\* the record mark_resolved finds for failure_id, NoRecord when there is none
FailureById(mem, user_id, failure_id) ==
    LET failures == GetUserFailures(mem, user_id, FALSE, MARK_LIMIT)
        hit == {i \in 1..Len(failures) : failures[i].failure_id = failure_id}
    IN IF hit = {} THEN NoRecord ELSE failures[MinOf(hit)]

\* mark_resolved when the call of the memory index named by fault raises
MarkResolved(user_id, failure_id, fault) ==
    /\ Returned(calls) < MaxFaultyCalls
    /\ calls' = Put(calls, <<user_id, <<failure_id, <<>>>>>>,
                    Count(calls, <<user_id, <<failure_id, <<>>>>>>) + 1)
    /\ IF fault = "lookup"
       THEN /\ ret' = Raised("mark_resolved", user_id, fault, Returned(calls))
            /\ UNCHANGED <<memory, mem_next>>
       ELSE IF FailureById(memory, user_id, failure_id) = NoRecord
       THEN /\ ret' = [op |-> "mark_resolved", user_id |-> user_id, fault |-> fault,
                       n |-> Returned(calls), raised |-> "",
                       failure_id |-> failure_id, record |-> NoRecord, val |-> FALSE]
            /\ UNCHANGED <<memory, mem_next>>
       ELSE LET record == [FailureById(memory, user_id, failure_id)
                              EXCEPT !.resolved = TRUE]
            IN /\ memory' = UpdateFailureWith(memory, mem_next, user_id, record, now, fault)
               /\ mem_next' = mem_next + 1
               /\ ret' = [op |-> "mark_resolved", user_id |-> user_id,
                          fault |-> fault, n |-> Returned(calls), raised |-> "",
                          failure_id |-> failure_id,
                          record |-> FailureById(memory, user_id, failure_id),
                          val |-> UpdateOk(memory, user_id, record, fault)]
    /\ UNCHANGED <<now, storeVars, promptVars, raceVars, bridge>>

\* the failure ids a caller can hold, and one that no record has
FailureIds == {<<"r">> \o DigitsOf(i) : i \in 1..Len(hashed)} \cup {<<"n", "o">>}

FaultyFailures ==
    {[action |-> <<"B", "u">>, error |-> <<"E", "r">>],
     [action |-> <<"A">>, error |-> <<"E", "r">>]}

FaultyNotes == {[context |-> <<"c", "1">>, lesson |-> <<"l">>]}

NextLedgerFaults ==
    \/ \E u \in LedgerUsers, f \in FaultyFailures, n \in FaultyNotes, fault \in FaultSites :
          RecordFailureWith(u, f.action, f.error, n.context, n.lesson, fault)
    \/ \E u \in LedgerUsers, id \in FailureIds, fault \in FaultSites \ {"new_add"} :
          MarkResolved(u, id, fault)
    \/ Tick

SpecLedgerFaults == Init /\ [][NextLedgerFaults]_vars

\* C17: failure bookkeeping never faults: when a call of the memory index
\* (add, get_by_type or delete) raises during record_failure, record_failure
\* raises nothing and returns a FailureRecord, on the first-occurrence path
\* and on the recurrence path.
C17_NeverFaults ==
    (ret.op = "record_failure" /\ ret.fault # "none")
        => (ret.raised = "" /\ ret.record # NoRecord)

\* the signatures of the records in the ledger of a user
SignaturesIn(mem, user_id) ==
    LET recs == GetUserFailures(mem, user_id, FALSE, DEFAULT_LIMIT)
    IN {Signature(recs[i].action, recs[i].error_message) : i \in 1..Len(recs)}

\* rec is in the ledger, resolved and otherwise as mark_resolved found it
KeptResolved(mem, user_id, rec) ==
    \E i \in 1..Len(GetUserFailures(mem, user_id, FALSE, DEFAULT_LIMIT)) :
        LET f == GetUserFailures(mem, user_id, FALSE, DEFAULT_LIMIT)[i]
        IN /\ f.failure_id = rec.failure_id
           /\ f.resolved
           /\ f.action = rec.action
           /\ f.error_message = rec.error_message
           /\ f.lesson = rec.lesson
           /\ f.recurrence_count = rec.recurrence_count

\* C19: failures are retained: over any record_failure or mark_resolved
\* call, also one during which a write to the memory index fails, the set of
\* failure signatures in the ledger of the user does not shrink; mark_resolved
\* on an existing failure_id returns true and leaves the record in the ledger
\* resolved with its action, error, lesson and recurrence_count as they were,
\* and on an unknown failure_id it returns false and changes nothing.
C19_FailuresRetained ==
    [][/\ \A u \in LedgerUsers : SignaturesIn(memory, u) \subseteq SignaturesIn(memory', u)
       /\ (ret' # ret /\ ret'.op = "mark_resolved" /\ ret'.fault = "none")
             => IF ret'.record = NoRecord
                THEN ret'.val = FALSE /\ memory' = memory
                ELSE ret'.val = TRUE /\ KeptResolved(memory', ret'.user_id, ret'.record)]_vars

(***************************************************************************)
(* The prompt assembler when a collaborator raises.                        *)
(***************************************************************************)
MaxFaultyLookups == 2

\* the collaborator call that raises during a build: get_relevant_failures /
\* format_for_prompt of the failure ledger, get_todo_md of the task-document
\* store, get_cached_prompt or store_prompt of the prompt cache
PromptFaults == {"none", "ledger", "task_store", "cache_get", "cache_store"}

\* _get_failure_lessons: "except Exception" and the return of ""
GetFailureLessonsWith(mem, chat_id, user_input, fault) ==
    IF fault = "ledger" THEN <<>> ELSE GetFailureLessons(mem, chat_id, user_input)

\* _get_task_state: "except Exception: return ''"
GetTaskStateWith(fs, ids, chat_id, t, fault) ==
    IF fault = "task_store" THEN <<>> ELSE GetTaskState(fs, ids, chat_id, t)

\* build_optimized_prompt with the task recitation in front of the user input
BuildOptimizedPromptRecitationFirst(fs, ids, mem, t, user_input, chat_id, memories, working_memory, include_meta_prompt, claude_md_content, fault) ==
    Join(<<Strip(STATIC_SYSTEM_PREFIX)>>
            \o (IF include_meta_prompt /\ claude_md_content # <<>>
                THEN Titled(META_TITLE, ExtractMetaPrompt(claude_md_content)) ELSE <<>>)
            \o (IF working_memory # <<>> THEN Present(FormatWorkingMemory(working_memory)) ELSE <<>>)
            \o (IF memories # <<>> THEN Present(FormatRetrievedMemories(memories)) ELSE <<>>)
            \o Present(GetFailureLessonsWith(mem, chat_id, user_input, fault))
            \o Recited(GetTaskStateWith(fs, ids, chat_id, t, fault))
            \o <<UserInputSection(user_input)>>,
         SECTION_SEPARATOR)

\* build_optimized_prompt when the collaborator named by fault raises
BuildOptimizedPromptWith(fs, ids, mem, t, user_input, chat_id, memories, working_memory, include_meta_prompt, claude_md_content, fault) ==
    Join(<<Strip(STATIC_SYSTEM_PREFIX)>>
            \o (IF include_meta_prompt /\ claude_md_content # <<>>
                THEN Titled(META_TITLE, ExtractMetaPrompt(claude_md_content)) ELSE <<>>)
            \o (IF working_memory # <<>> THEN Present(FormatWorkingMemory(working_memory)) ELSE <<>>)
            \o (IF memories # <<>> THEN Present(FormatRetrievedMemories(memories)) ELSE <<>>)
            \o Present(GetFailureLessonsWith(mem, chat_id, user_input, fault))
            \o <<UserInputSection(user_input)>>
            \o Recited(GetTaskStateWith(fs, ids, chat_id, t, fault)),
         SECTION_SEPARATOR)

\* what a build called at time now returns, or that an exception left it
Built(op, chat_id, x, fault, raised, text, cache_hit) ==
    [op |-> op, chat_id |-> chat_id, user_input |-> x.user_input, fault |-> fault,
     raised |-> raised, text |-> text, cache_hit |-> cache_hit, at |-> now]

\* build_optimized_prompt when the failure ledger or the task-document store
\* raises
BuildWith(chat_id, x, fault) ==
    /\ ret' = Built("build", chat_id, x, fault, "",
                    BuildOptimizedPromptWith(files, session_task_ids, memory, now,
                        x.user_input, chat_id, x.memories, x.working_memory,
                        x.include_meta_prompt, x.claude_md_content, fault),
                    FALSE)
    /\ dirs' = IF fault = "task_store" THEN dirs ELSE GetUserDir(dirs, chat_id)
    /\ UNCHANGED <<now, index, files, hashed, refs, ledgerVars, promptVars, raceVars, bridge>>

\* the miss of build_optimized_prompt_with_cache: prompt is built and, unless
\* store_prompt raises, stored and returned
MissWith(chat_id, x, cache_key, prompt, fault) ==
    /\ dirs' = IF fault = "task_store" THEN dirs ELSE GetUserDir(dirs, chat_id)
    /\ IF fault = "cache_store"
       THEN /\ ret' = Built("build_with_cache", chat_id, x, fault, "Exception", <<>>, FALSE)
            /\ UNCHANGED <<cache, cache_puts, cache_expired>>
       ELSE /\ cache' = StorePrompt(cache, cache_key, prompt, STATIC_SYSTEM_PREFIX,
                                    chat_id, x.ttl_seconds, now)
            /\ cache_puts' = Put(cache_puts, cache_key,
                                 [text |-> prompt, at |-> now,
                                  ttl_seconds |-> x.ttl_seconds])
            /\ cache_expired' = cache_expired \ {cache_key}
            /\ ret' = Built("build_with_cache", chat_id, x, fault, "", prompt, FALSE)

\* the lookup of build_optimized_prompt_with_cache and what follows it; on a
\* hit no other collaborator is called
LookedUpWith(chat_id, x, cache_key, cached_prompt, fault) ==
    /\ cache_stats' = CountLookup(cache_stats, cached_prompt)
    /\ IF CacheHit(cached_prompt)
       THEN /\ fault = "none"
            /\ ret' = Built("build_with_cache", chat_id, x, fault, "", cached_prompt, TRUE)
            /\ cache_expired' = NoteExpired(cache_expired, cache, cache_key, now)
            /\ UNCHANGED <<cache, cache_puts, dirs>>
       ELSE MissWith(chat_id, x, cache_key,
                     BuildOptimizedPromptWith(files, session_task_ids, memory, now,
                         x.user_input, chat_id, x.memories, x.working_memory,
                         x.include_meta_prompt, x.claude_md_content, fault),
                     fault)

\* build_optimized_prompt_with_cache when the collaborator named by fault
\* raises
BuildWithCacheWith(chat_id, x, fault) ==
    /\ cache_stats.hits + cache_stats.misses < MaxFaultyLookups
    /\ IF fault = "cache_get"
       THEN /\ ret' = Built("build_with_cache", chat_id, x, fault, "Exception", <<>>, FALSE)
            /\ UNCHANGED <<dirs, cache, cache_puts, cache_expired, cache_stats>>
       ELSE LookedUpWith(chat_id, x, CacheKeyOf(chat_id),
                         GetCachedPrompt(cache, CacheKeyOf(chat_id), now), fault)
    /\ UNCHANGED <<now, index, files, hashed, refs, ledgerVars, session_task_ids,
                   task_goals, raceVars, bridge>>

NextPromptFaults ==
    \/ \E u \in LedgerUsers, g \in CachedGoals : CreateTask(u, g)
    \/ \E u \in LedgerUsers, f \in PromptFailures :
          mem_next <= MaxRecorded /\ RecordFailure(u, f.action, f.error, <<>>, <<>>)
    \/ \E u \in LedgerUsers, x \in PromptTurns, fault \in {"none", "ledger", "task_store"} :
          BuildWith(u, x, fault)
    \/ \E u \in LedgerUsers, fault \in PromptFaults :
          BuildWithCacheWith(u, TurnOf(<<"A">>), fault)
    \/ Tick

SpecPromptFaults == Init /\ [][NextPromptFaults]_vars

\* the sections f of a text built without a fault, less the section of the
\* collaborator named by fault
WithoutSectionOf(f, fault) ==
    LET Keep(section) ==
            /\ ~(fault = "ledger" /\ StartsWith(section, HEADER_LINE))
            /\ ~(fault = "task_store" /\ StartsWith(section, RECITATION_TITLE))
    IN SelectSeq(f, Keep)

\* C18: a turn is never aborted by a collaborator fault: when the failure
\* ledger, the task-document store or the prompt cache raises during build or
\* build_with_cache, the call raises nothing and returns a text with the
\* static prefix and the user-input section of the call, in which only the
\* section of the collaborator that raised is missing.
C18_TurnNeverAborted ==
    (ret.op \in {"build", "build_with_cache"} /\ ret.fault # "none")
        => /\ ret.raised = ""
           /\ StartsWith(ret.text, Strip(STATIC_SYSTEM_PREFIX))
           /\ \E k \in 1..Len(Sections(ret.text)) :
                 Sections(ret.text)[k] = UserInputSection(ret.user_input)
           /\ ret.text =
                 Join(WithoutSectionOf(
                          Sections(BuildOptimizedPromptWith(
                              files, session_task_ids, memory, ret.at,
                              ret.user_input, ret.chat_id,
                              TurnOf(ret.user_input).memories,
                              TurnOf(ret.user_input).working_memory,
                              TurnOf(ret.user_input).include_meta_prompt,
                              TurnOf(ret.user_input).claude_md_content, "none")),
                          ret.fault),
                      SECTION_SEPARATOR)

(***************************************************************************)
(* Ranking of the failures of a user for a current action.                 *)
(***************************************************************************)
\* an action of eleven words, the same words in reverse order, and two
\* short actions
RankedActions ==
    {<<"a", " ", "b", " ", "c", " ", "d", " ", "e", " ", "f", " ", "g", " ", "h", " ",
       "i", " ", "j", " ", "k">>,
     <<"k", " ", "j", " ", "i", " ", "h", " ", "g", " ", "f", " ", "e", " ", "d", " ",
       "c", " ", "b", " ", "a">>,
     <<"R", "u", "n">>, <<"r", "u", "n", " ", "i", "t">>}

\* the current actions asked about
CurrentActions ==
    {<<"a", " ", "b", " ", "c", " ", "d", " ", "e", " ", "f", " ", "g", " ", "h", " ",
       "i", " ", "j", " ", "k">>,
     <<"r", "u", "n">>}

RankLimits == {1, 3}

\* get_relevant_failures
GetRelevant(user_id, current_action, limit) ==
    /\ ret' = [op |-> "get_relevant_failures", user_id |-> user_id,
               current_action |-> current_action, limit |-> limit,
               val |-> GetRelevantFailures(memory, user_id, current_action, limit)]
    /\ UNCHANGED <<now, storeVars, ledgerVars, promptVars, raceVars, bridge>>

NextRank ==
    \/ \E u \in LedgerUsers, a \in RankedActions :
          RecordFailure(u, a, <<"E", "r">>, <<>>, <<>>)
    \/ \E u \in LedgerUsers, a \in CurrentActions, n \in RankLimits : GetRelevant(u, a, n)
    \/ Tick

SpecRank == Init /\ [][NextRank]_vars

\* the records of the ledger have pairwise different actions and were each
\* recorded once
RecordedOnce(recs) ==
    /\ \A i \in 1..Len(recs) : recs[i].recurrence_count = 1
    /\ \A i, j \in 1..Len(recs) : i # j => recs[i].action # recs[j].action

\* C20: exact match ranks first: when the records of the ledger of a user have
\* pairwise different actions and were each recorded once, and one of them
\* has an action equal to A without regard to case, then
\* get_relevant_failures(user, A, limit) with limit >= 1 returns that record
\* as its first element.
C20_ExactFirst ==
    (/\ ret.op = "get_relevant_failures"
     /\ RecordedOnce(GetUserFailures(memory, ret.user_id, FALSE, RELEVANT_LIMIT))
     /\ \E i \in 1..Len(GetUserFailures(memory, ret.user_id, FALSE, RELEVANT_LIMIT)) :
           Lower(GetUserFailures(memory, ret.user_id, FALSE, RELEVANT_LIMIT)[i].action)
               = Lower(ret.current_action))
        => /\ ret.val # <<>>
           /\ Lower(ret.val[1].action) = Lower(ret.current_action)

(***************************************************************************)
(* The order of the ranking.                                               *)
(***************************************************************************)
\* record_failure calls ahead of a ranking
MaxRanked == 3

RelevanceActions ==
    {<<"R", "u", "n">>, <<"r", "u", "n", " ", "i", "t">>, <<"i", "t", " ", "x">>, <<"g", "o">>}

RelevanceQueries == {<<"r", "u", "n">>, <<"x", " ", "i", "t">>}

RelevanceLimits == {0, 1, 3}

NextRelevance ==
    \/ \E a \in RelevanceActions :
          /\ TotalCalls(calls) < MaxRanked
          /\ RecordFailureCall(<<"u">>, a, <<"E", "r">>, <<>>, <<>>)
    \/ /\ TotalCalls(calls) < MaxRanked
       /\ RecordFailureCall(<<"v">>, <<"R", "u", "n">>, <<"E", "r">>, <<>>, <<>>)
    \/ \E u \in LedgerUsers, a \in RelevanceQueries, n \in RelevanceLimits :
          GetRelevant(u, a, n)

SpecRelevance == Init /\ [][NextRelevance]_vars

\* the score of the record f for the action A: 100 when the actions are equal
\* ignoring case, else 50 when one contains the other, else 10 for each word
\* they share; and 5 for each occurrence
RankScore(f, A) ==
    (IF Lower(f.action) = Lower(A) THEN 100
     ELSE IF IsIn(Lower(f.action), Lower(A)) \/ IsIn(Lower(A), Lower(f.action)) THEN 50
     ELSE 10 * Cardinality({w \in WordsOf(Lower(A)) : w \in WordsOf(Lower(f.action))}))
    + 5 * f.recurrence_count

\* val holds at most limit records of the user taken from the ledger's list,
\* by non-increasing score, records of equal score in the ledger's order
Ranked(ledger, val, user_id, A, limit) ==
    /\ Len(val) <= limit
    /\ \A i \in 1..Len(val) : val[i].user_id = user_id
    /\ \A i \in 1..Len(val) - 1 : RankScore(val[i], A) >= RankScore(val[i + 1], A)
    /\ \E pos \in [1..Len(val) -> 1..Len(ledger)] :
          /\ \A i \in 1..Len(val) : ledger[pos[i]] = val[i]
          /\ \A i, j \in 1..Len(val) :
                (i < j /\ RankScore(val[i], A) = RankScore(val[j], A)) => pos[i] < pos[j]
          /\ \A i, j \in 1..Len(val) : i # j => pos[i] # pos[j]

\* C21: relevance ranking: get_relevant_failures(user, A, limit) returns at
\* most limit records of that user, ordered by non-increasing score, where
\* the score is 100 for equal actions ignoring case, else 50 when one action
\* contains the other, else 10 times the number of shared words, plus 5 times
\* recurrence_count; records of equal score keep the order of the ledger.
C21_RelevanceRanking ==
    ret.op = "get_relevant_failures"
        => Ranked(GetUserFailures(memory, ret.user_id, FALSE, RELEVANT_LIMIT),
                  ret.val, ret.user_id, ret.current_action, ret.limit)

\* two records are returned, and the record recorded twice, which the ledger
\* lists second, comes first
C21_Witness ==
    /\ ret.op = "get_relevant_failures"
    /\ Len(ret.val) = 2
    /\ ret.val[1].recurrence_count = 2
    /\ ret.val[1].failure_id
          = GetUserFailures(memory, ret.user_id, FALSE, RELEVANT_LIMIT)[2].failure_id

(***************************************************************************)
(* The classification of error messages.                                   *)
(***************************************************************************)
\* record_failure calls with classified messages
MaxClassified == 2

\* messages of every kind, messages in which patterns of two kinds occur,
\* patterns in upper case, and the two patterns with a gap, whole, reversed
\* and broken by a newline
ClassifiedMessages ==
    {<<"S", "y", "n", "t", "a", "x", "E", "r", "r", "o", "r", ":", " ", "x">>,
     <<"e", "x", "p", "e", "c", "t", "e", "d", " ", "a", " ", "b", "u", "t", " ", "f",
     "o", "u", "n", "d">>,
     <<"e", "x", "p", "e", "c", "t", "e", "d", " ", "a", "\n", "b", "u", "t", " ", "f",
     "o", "u", "n", "d">>,
     <<"w", "r", "o", "n", "g", " ", "r", "e", "s", "u", "l", "t">>,
     <<"u", "n", "d", "e", "f", "i", "n", "e", "d", " ", "r", "e", "f", "e", "r", "e",
     "n", "c", "e">>,
     <<"r", "e", "f", "e", "r", "e", "n", "c", "e", " ", "u", "n", "d", "e", "f", "i",
     "n", "e", "d">>,
     <<"M", "e", "t", "h", "o", "d", " ", "N", "o", "t", " ", "A", "l", "l", "o", "w",
     "e", "d">>,
     <<"n", "o", "t", " ", "a", "l", "l", "o", "w", "e", "d">>,
     <<"t", "i", "m", "e", "o", "u", "t", " ", "c", "o", "n", "f", "i", "g", "u", "r",
     "a", "t", "i", "o", "n">>,
     <<"e", "n", "v", " ", "v", "a", "r", "i", "a", "b", "l", "e", " ", "f", "o", "r",
     "b", "i", "d", "d", "e", "n">>,
     <<"E", "N", "O", "T", "F", "O", "U", "N", "D">>,
     <<"o", "o", "p", "s">>}

NextClassify ==
    \E m \in ClassifiedMessages :
          /\ TotalCalls(calls) < MaxClassified
          /\ RecordFailureCall(<<"u">>, <<"A">>, m, <<>>, <<>>)

SpecClassify == Init /\ [][NextClassify]_vars

\* the kinds in the order of classification
KindOrder ==
    <<<<"s", "y", "n", "t", "a", "x">>,
      <<"l", "o", "g", "i", "c">>,
      <<"r", "u", "n", "t", "i", "m", "e">>,
      <<"a", "p", "i", "_", "u", "s", "a", "g", "e">>,
      <<"c", "o", "n", "f", "i", "g">>,
      <<"p", "e", "r", "m", "i", "s", "s", "i", "o", "n">>,
      <<"n", "e", "t", "w", "o", "r", "k">>>>

\* a pattern of the kind occurs in the lowercased message
KindOccurs(kind, error_message) ==
    \E k \in 1..Len(ERROR_PATTERNS) :
       /\ ERROR_PATTERNS[k].error_type = kind
       /\ \E p \in 1..Len(ERROR_PATTERNS[k].patterns) :
             PatternMatches(Lower(error_message), ERROR_PATTERNS[k].patterns[p])

\* the first kind of the order with a pattern in the message, else unknown
FirstKind(error_message) ==
    IF \A k \in 1..Len(KindOrder) : ~KindOccurs(KindOrder[k], error_message)
    THEN UNKNOWN
    ELSE KindOrder[MinOf({k \in 1..Len(KindOrder) : KindOccurs(KindOrder[k], error_message)})]

\* C22: error classification: the error_type of a newly recorded failure is
\* the first kind, in the order syntax, logic, runtime, api-usage, config,
\* permission, network, one of whose patterns occurs in the lowercased error
\* message, and unknown when no pattern occurs; it is one of the eight kinds
\* and depends on the message only.
C22_Classification ==
    (ret.op = "record_failure" /\ ret.path = "new")
        => /\ ret.record.error_type = FirstKind(ret.record.error_message)
           /\ ret.record.error_type \in {KindOrder[k] : k \in 1..Len(KindOrder)} \cup {UNKNOWN}

\* a message with patterns of two kinds is recorded with the earlier kind
C22_Witness ==
    /\ ret.op = "record_failure"
    /\ ret.path = "new"
    /\ KindOccurs(KindOrder[4], ret.record.error_message)
    /\ KindOccurs(KindOrder[6], ret.record.error_message)
    /\ ret.record.error_type = KindOrder[4]

(***************************************************************************)
(* The extraction of a lesson from a response.                             *)
(***************************************************************************)
LESSON_WORD == <<"l", "e", "s", "s", "o", "n">>

LESSON_DASHES == <<"-", "-">>

LESSON_END == <<"\n", "-", "-">>

MaxOf(S) == CHOOSE x \in S : \A y \in S : y <= x

\* the position after '--\s*lesson' when that begins at position i, else 0
AfterLessonWord(r, i) ==
    LET j == i + 2 + WsRun(r, i + 2)
    IN IF j + Len(LESSON_WORD) - 1 <= Len(r)
          /\ SubSeq(r, j, j + Len(LESSON_WORD) - 1) = LESSON_WORD
       THEN j + Len(LESSON_WORD) ELSE 0

\* the newlines '\s*\n' can end at after position p, each with a '\n--' behind
\* it for the lazy group to stop at
LessonNewlines(r, p) ==
    {m \in p..(p + WsRun(r, p) - 1) : r[m] = "\n" /\ Occurrences(r, LESSON_END, m + 1) # {}}

\* the starts of a match of '--\s*lesson\s*\n(.*?)\n--'
LessonStarts(r) ==
    {i \in Occurrences(r, LESSON_DASHES, 1) :
        /\ AfterLessonWord(r, i) # 0
        /\ LessonNewlines(r, AfterLessonWord(r, i)) # {}}

\* group 1 of the match that begins at position i: the greedy '\s*' gives up
\* as few characters as it must, the lazy group takes as few as it can
LessonGroup(r, i) ==
    LET m == MaxOf(LessonNewlines(r, AfterLessonWord(r, i)))
    IN SubSeq(r, m + 1, MinOf(Occurrences(r, LESSON_END, m + 1)) - 1)

\* extract_lesson_from_response
ExtractLessonFromResponse(response) ==
    IF LessonStarts(response) = {} THEN None
    ELSE Strip(LessonGroup(response, MinOf(LessonStarts(response))))

\* the lines responses are made of
ResponseLines ==
    {<<"-", "-", " ", "l", "e", "s", "s", "o", "n">>, <<"-", "-">>, <<"a">>,
     <<"-", "-", "b">>, <<>>}

MaxResponseLines == 3

Responses ==
    {Join(ls, <<"\n">>) : ls \in UNION {[1..n -> ResponseLines] : n \in 1..MaxResponseLines}}

\* extract_lesson_from_response, called
ExtractLesson(response) ==
    /\ ret' = [op |-> "extract_lesson_from_response", response |-> response,
               val |-> ExtractLessonFromResponse(response)]
    /\ UNCHANGED <<now, storeVars, ledgerVars, promptVars, raceVars, bridge>>

NextExtract ==
    \/ \E response \in Responses : ExtractLesson(response)
    \/ Tick

SpecExtract == Init /\ [][NextExtract]_vars

\* the first line of the response that is the start line '-- lesson', 0 when
\* there is none
StartLine(lines) ==
    IF \E i \in 1..Len(lines) : lines[i] = LESSON_DASHES \o <<" ">> \o LESSON_WORD
    THEN MinOf({i \in 1..Len(lines) : lines[i] = LESSON_DASHES \o <<" ">> \o LESSON_WORD})
    ELSE 0

\* the first line after line i that consists of '--' only, 0 when there is none
EndLine(lines, i) ==
    IF \E j \in (i + 1)..Len(lines) : lines[j] = LESSON_DASHES
    THEN MinOf({j \in (i + 1)..Len(lines) : lines[j] = LESSON_DASHES})
    ELSE 0

\* the body of the well-formed block of the response, None when the response
\* has no well-formed block or the body is empty
LessonBody(lines) ==
    IF StartLine(lines) = 0 \/ EndLine(lines, StartLine(lines)) = 0 THEN None
    ELSE IF Strip(Join(SubSeq(lines, StartLine(lines) + 1,
                              EndLine(lines, StartLine(lines)) - 1), <<"\n">>)) = <<>>
    THEN None
    ELSE Strip(Join(SubSeq(lines, StartLine(lines) + 1,
                           EndLine(lines, StartLine(lines)) - 1), <<"\n">>))

\* C23: lesson extraction is all-or-nothing: extract_lesson_from_response
\* returns the complete body between a start line '-- lesson' and the next
\* line that consists of '--' only, and none when the response has no such
\* well-formed block; it never returns a proper part of a lesson body and
\* never an empty lesson.
C23_LessonAllOrNothing ==
    ret.op = "extract_lesson_from_response"
        => ret.val = LessonBody(SplitAll(ret.response, <<"\n">>))

(***************************************************************************)
(* The sections of a built text.                                           *)
(***************************************************************************)
\* the sections a build can emit, in the fixed order: static prefix, project
\* meta-instructions, working memory, retrieved memories, failure lessons,
\* user input, task recitation
SectionSlots(fs, ids, mem, t, chat_id, x) ==
    <<Strip(STATIC_SYSTEM_PREFIX),
      META_TITLE \o ExtractMetaPrompt(x.claude_md_content),
      FormatWorkingMemory(x.working_memory),
      FormatRetrievedMemories(x.memories),
      GetFailureLessons(mem, chat_id, x.user_input),
      UserInputSection(x.user_input),
      FormatTaskRecitation(GetTaskState(fs, ids, chat_id, t))>>

RECURSIVE SlotsFrom(_, _, _)
\* the slots of the set S from slot k on, in their order
SlotsFrom(slots, S, k) ==
    IF k > Len(slots) THEN <<>>
    ELSE (IF k \in S THEN <<slots[k]>> ELSE <<>>) \o SlotsFrom(slots, S, k + 1)

\* text is made of the static prefix (slot 1), the user input (slot 6) and
\* some of the other slots, in the fixed order, with one separator between
\* neighbours
InFixedOrder(text, slots) ==
    \E S \in SUBSET (1..Len(slots)) :
       /\ 1 \in S
       /\ 6 \in S
       /\ text = Join(SlotsFrom(slots, S, 1), SECTION_SEPARATOR)

\* builds for users with a task, a recorded failure, both or neither
NextSections ==
    \/ \E u \in PromptUsers, g \in Goals : CreateTask(u, g)
    \/ \E u \in LedgerUsers, f \in PromptFailures :
          mem_next <= MaxRecorded /\ RecordFailure(u, f.action, f.error, <<>>, <<>>)
    \/ \E u \in PromptUsers, x \in PromptTurns : BuildWith(u, x, "none")
    \/ Tick

SpecSections == Init /\ [][NextSections]_vars

\* C24: fixed section order: in every text returned by build the first
\* section is the constant static prefix, and the sections that are present
\* appear in the order static prefix, project meta-instructions, working
\* memory, retrieved memories, failure lessons, user input, task recitation,
\* with exactly one separator between consecutive sections.
C24_FixedSectionOrder ==
    (ret.op = "build" /\ ret.raised = "")
        => /\ StartsWith(ret.text, Strip(STATIC_SYSTEM_PREFIX))
           /\ InFixedOrder(ret.text,
                           SectionSlots(files, session_task_ids, memory, ret.at,
                                        ret.chat_id, TurnOf(ret.user_input)))

\* a text with all seven sections has been built
C24_Witness ==
    /\ ret.op = "build"
    /\ ret.fault = "none"
    /\ Len(Sections(ret.text)) = 7
    /\ StartsWith(Sections(ret.text)[5], HEADER_LINE)
    /\ StartsWith(Sections(ret.text)[7], RECITATION_TITLE)

\* some section of the text begins with head
HasSection(text, head) ==
    \E k \in 1..Len(Sections(text)) : StartsWith(Sections(text)[k], head)

\* C25: absent sections are omitted: when no working memory or no memories
\* are supplied, when the user has no failure records, or when no task
\* document was ever written for the user's current task, build emits no
\* section for it; for a user with no task document the text has no
\* task-recitation section and no placeholder or timestamped template text.
C25_AbsentOmitted ==
    (ret.op = "build" /\ ret.fault = "none")
        => /\ TurnOf(ret.user_input).working_memory = <<>>
                 => ~HasSection(ret.text, WORKING_MEMORY_TITLE \o <<"\n", "1", ".">>)
           /\ TurnOf(ret.user_input).memories = <<>>
                 => ~HasSection(ret.text, MEMORIES_TITLE \o <<"\n", "*", " ">>)
           /\ GetUserFailures(memory, ret.chat_id, FALSE, RELEVANT_LIMIT) = <<>>
                 => ~HasSection(ret.text, HEADER_LINE)
           /\ TodoPath(ret.chat_id, GetTaskId(session_task_ids, ret.chat_id)) \notin DOMAIN files
                 => /\ ~HasSection(ret.text, RECITATION_TITLE)
                    /\ ~Contains(ret.text, Take(DEFAULT_TODO_HEAD, 8))
                    /\ ~Contains(ret.text, StrfTime(ret.at))

(***************************************************************************)
(* The windows of working memory and of retrieved memories.                *)
(***************************************************************************)
\* the longest list of dialogue turns and of memories supplied
MaxWindow == 6

WindowEntries == {<<"a">>, <<"b">>}

SEE_MARK == <<"(", "s", "e", "e", ":">>

\* a reference with its summary, a content one character over the limit, and
\* the same with a reference behind it
WindowContents ==
    {<<"m", " ">> \o SEE_MARK \o <<" ", "f", ")">>,
     Rep("c", MEMORY_LINE_MAX + 1),
     Rep("c", MEMORY_LINE_MAX + 1) \o <<" ">> \o SEE_MARK \o <<" ", "f", ")">>}

\* _format_working_memory, called
FormatWorking(working_memory) ==
    /\ ret' = [op |-> "format_working_memory", working_memory |-> working_memory,
               val |-> FormatWorkingMemory(working_memory)]
    /\ UNCHANGED <<now, storeVars, ledgerVars, promptVars, raceVars, bridge>>

\* _format_retrieved_memories, called
FormatRetrieved(memories) ==
    /\ ret' = [op |-> "format_retrieved_memories", memories |-> memories,
               val |-> FormatRetrievedMemories(memories)]
    /\ UNCHANGED <<now, storeVars, ledgerVars, promptVars, raceVars, bridge>>

\* the lists of dialogue turns and of memories supplied
WorkingLists == UNION {[1..n -> WindowEntries] : n \in 0..MaxWindow}

MemoryLists == UNION {[1..n -> {[content |-> c] : c \in WindowContents}] : n \in 0..MaxWindow}

\* one call of a formatter on one of the lists
NextWindows ==
    \/ \E working_memory \in WorkingLists :
          ret.op = "init" /\ FormatWorking(working_memory)
    \/ \E memories \in MemoryLists : ret.op = "init" /\ FormatRetrieved(memories)

SpecWindows == Init /\ [][NextWindows]_vars

\* the smaller of the size of a window and n
WindowSize(max, n) == IF n < max THEN n ELSE max

\* lines is the title and the last min(5, n) entries of wm, in their order,
\* numbered from 1
LastEntries(lines, wm) ==
    /\ Len(lines) = 1 + WindowSize(5, Len(wm))
    /\ lines[1] = WORKING_MEMORY_TITLE
    /\ \A i \in 1..WindowSize(5, Len(wm)) :
          lines[i + 1] = DigitsOf(i) \o <<".", " ">> \o wm[Len(wm) - WindowSize(5, Len(wm)) + i]

\* shown is what a memory line shows of content: a prefix of it of at most
\* 150 characters without the marker and what follows it
ShownOf(shown, content) ==
    /\ Len(shown) <= 150
    /\ ~Contains(shown, SEE_MARK)
    /\ StartsWith(content, shown)
    /\ ~Contains(content, SEE_MARK) => shown = Take(content, 150)
    /\ Contains(content, SEE_MARK)
          => shown = Take(Strip(SubSeq(content, 1, Find(content, SEE_MARK, 1) - 1)), 150)

\* lines is the title and at most the first 5 of the memories
FirstMemories(lines, mems) ==
    /\ Len(lines) = 1 + WindowSize(5, Len(mems))
    /\ lines[1] = MEMORIES_TITLE
    /\ \A i \in 1..WindowSize(5, Len(mems)) :
          /\ StartsWith(lines[i + 1], <<"*", " ">>)
          /\ ShownOf(Drop(lines[i + 1], 2), mems[i].content)

\* C26: size bounds of the dynamic windows: for any supplied working_memory
\* list the working-memory section holds exactly its last min(5, n) entries,
\* in their original order and numbered from 1; for any supplied memories
\* list the retrieved-memories section holds at most its first 5 entries,
\* each shown with at most 150 characters of content and with everything
\* from an embedded '(see:' marker onward removed.
C26_WindowBounds ==
    /\ (ret.op = "format_working_memory" /\ ret.working_memory # <<>>)
          => LastEntries(SplitAll(ret.val, <<"\n">>), ret.working_memory)
    /\ (ret.op = "format_retrieved_memories" /\ ret.memories # <<>>)
          => FirstMemories(SplitAll(ret.val, <<"\n">>), ret.memories)

\* six dialogue turns were supplied and the first, which differs from the
\* second, is left out
C26_Witness ==
    /\ ret.op = "format_working_memory"
    /\ Len(ret.working_memory) = 6
    /\ ret.working_memory[1] # ret.working_memory[2]
    /\ Len(SplitAll(ret.val, <<"\n">>)) = 6

\* the document of (user_id, task_id) among the files fs, None when absent
DocOf(fs, user_id, task_id) ==
    IF TodoPath(user_id, task_id) \in DOMAIN fs THEN fs[TodoPath(user_id, task_id)]
    ELSE None

\* C27: task document update: update_todo_md(user, c, task, append=false)
\* makes the document of (user, task) exactly c; with append=true on an
\* existing document D the new document is D, a timestamped separator and c;
\* with append=true on an absent document the document is created with
\* content c; it returns true, and the documents of all other (user, task)
\* pairs are unchanged.
C27_TodoUpdate ==
    [][(ret'.op = "update_todo_md" /\ ret'.val /\ (ret' # ret \/ files' # files))
          => /\ (~ret'.append \/ DocOf(files, ret'.user_id, ret'.task_id) = None)
                   => DocOf(files', ret'.user_id, ret'.task_id) = ret'.content
             /\ (ret'.append /\ DocOf(files, ret'.user_id, ret'.task_id) # None)
                   => DocOf(files', ret'.user_id, ret'.task_id)
                         = DocOf(files, ret'.user_id, ret'.task_id)
                              \o UpdateSeparator(now) \o ret'.content
             /\ \A v \in IsolationUsers, k \in TaskIds :
                   <<v, k>> # <<ret'.user_id, ret'.task_id>>
                      => DocOf(files', v, k) = DocOf(files, v, k)]_vars

(***************************************************************************)
(* create_task when the write of the task document can fail.               *)
(***************************************************************************)
\* the task ids given to create_task; None asks for a generated id
GivenTaskIds == {None, <<"t">>}

\* create_task; written is FALSE when the write of the document raises inside
\* update_todo_md, which reports False and create_task does not look at
CreateTaskWith(chat_id, goal, task_id_in, written) ==
    LET task_id == IF task_id_in = None THEN TimeTaskId(now) ELSE task_id_in
    IN /\ \/ TodoPath(chat_id, task_id) \in DOMAIN files
          \/ Cardinality(DOMAIN files) < MaxTasks
       /\ session_task_ids' = Put(session_task_ids, chat_id, task_id)
       /\ dirs' = GetUserDir(dirs, chat_id)
       /\ files' = IF written
                   THEN UpdateTodoMd(files, chat_id, TaskTemplate(goal, task_id, now),
                                     task_id, FALSE, now)
                   ELSE files
       /\ task_goals' = Put(task_goals, chat_id, goal)
       /\ ret' = [op |-> "create_task", chat_id |-> chat_id, goal |-> goal,
                  val |-> task_id, written |-> written,
                  before |-> GetTaskId(session_task_ids, chat_id)]
       /\ UNCHANGED <<now, index, hashed, refs, ledgerVars, cache, cache_puts,
                      cache_expired, cache_stats, raceVars, bridge>>

NextTasks ==
    \/ \E u \in PromptUsers, g \in Goals, k \in GivenTaskIds, w \in BOOLEAN :
          CreateTaskWith(u, g, k, w)
    \/ \E u \in PromptUsers, k \in TaskIds : GetTodo(u, k)
    \/ Tick

SpecTasks == Init /\ [][NextTasks]_vars

\* C28: create_task establishes pointer and document together: after
\* create_task(user, G, t) returns id, the session's current task of user is
\* id and the document of (user, id) exists and contains G and id; whenever
\* the document write fails, the session's current task pointer of user is
\* not left pointing at id.
C28_PointerAndDocument ==
    ret.op = "create_task"
        => /\ ret.written
                 => /\ GetTaskId(session_task_ids, ret.chat_id) = ret.val
                    /\ DocOf(files, ret.chat_id, ret.val) # None
                    /\ Contains(DocOf(files, ret.chat_id, ret.val), ret.goal)
                    /\ Contains(DocOf(files, ret.chat_id, ret.val), ret.val)
           /\ (~ret.written /\ ret.before # ret.val)
                 => GetTaskId(session_task_ids, ret.chat_id) # ret.val

(***************************************************************************)
(* The purge of cleanup_old_files without a fault.                         *)
(***************************************************************************)
RECURSIVE SizeOf(_, _)
\* the sum of the sizes of the files of fs at the paths of S
SizeOf(fs, S) ==
    IF S = {} THEN 0
    ELSE LET p == CHOOSE p \in S : TRUE IN Len(fs[p]) + SizeOf(fs, S \ {p})

\* the records of idx created earlier than cutoff
Expired(idx, cutoff) == {r \in DOMAIN idx : idx[r].created_at < cutoff}

\* C29: retention purge is exact: cleanup_old_files(p) removes exactly the
\* records whose created_at is earlier than now - p, after which
\* retrieve_content of each removed ref_id returns not-found; every other
\* record stays in the index and retrievable with unchanged content; and
\* deleted_files is the number of artifact files removed and deleted_bytes
\* the sum of their sizes.
C29_PurgeExact ==
    [][(ret'.op = "cleanup_old_files" /\ (ret' # ret \/ index' # index))
          => /\ DOMAIN index' = DOMAIN index \ Expired(index, now - ret'.retention_days)
             /\ \A r \in Expired(index, now - ret'.retention_days) :
                   RetrieveContentOf(index', files', r) = None
             /\ \A r \in DOMAIN index' :
                   /\ index'[r] = index[r]
                   /\ RetrieveContentOf(index', files', r) # None
                   /\ RetrieveContentOf(index', files', r) = RetrieveContentOf(index, files, r)
             /\ ret'.val.deleted_files = Cardinality(DOMAIN files \ DOMAIN files')
             /\ ret'.val.deleted_bytes = SizeOf(files, DOMAIN files \ DOMAIN files')]_vars

\* a purge has removed one record and kept another
C29_Witness ==
    /\ ret.op = "cleanup_old_files"
    /\ Len(ret.removed) = 1
    /\ ret.val.deleted_files = 1
    /\ index # <<>>

(***************************************************************************)
(* The length of the summary of a stored content.                          *)
(***************************************************************************)
\* a first line of exactly the limit, one of one character more, a short
\* first line with a long second line, and a short content
SummaryContents ==
    {Rep("c", MAX_SUMMARY), Rep("c", MAX_SUMMARY + 1),
     <<"s", "\n">> \o Rep("c", MAX_SUMMARY), <<"s", "\n", "t">>}

NextSummary ==
    \/ \E u \in LedgerUsers, c \in SummaryContents, t \in StoreTypes :
          StoreLargeContent(u, c, t, <<>>)
    \/ \E r \in refs : RetrieveContent(r)
    \/ Tick

SpecSummary == Init /\ [][NextSummary]_vars

\* C30: summary length bound: for every content stored through
\* store_large_content, the summary of the returned reference record, and of
\* the marker to_memory_format makes of it, has at most 150 characters, any
\* ellipsis included.
C30_SummaryBound ==
    \A s \in refs :
       /\ Len(s.ref.summary) <= 150
       /\ Len(ToMemoryFormat(s.ref))
             <= Len(s.ref.content_type) + Len(s.ref.file_path) + 11 + 150

(***************************************************************************)
(* The recitation of a task whose document has been appended to.           *)
(***************************************************************************)
TASK_UPDATE_WORD == <<"t", "a", "s", "k", "_", "u", "p", "d", "a", "t", "e">>

\* the position after '--\s*task_update' when that begins at position i,
\* else 0
AfterTaskUpdateWord(r, i) ==
    LET j == i + 2 + WsRun(r, i + 2)
    IN IF j + Len(TASK_UPDATE_WORD) - 1 <= Len(r)
          /\ SubSeq(r, j, j + Len(TASK_UPDATE_WORD) - 1) = TASK_UPDATE_WORD
       THEN j + Len(TASK_UPDATE_WORD) ELSE 0

\* the starts, from position from on, of a match of
\* '--\s*task_update\s*\n(.*?)\n--'
TaskUpdateStarts(r, from) ==
    {i \in Occurrences(r, LESSON_DASHES, from) :
        /\ AfterTaskUpdateWord(r, i) # 0
        /\ LessonNewlines(r, AfterTaskUpdateWord(r, i)) # {}}

\* the position of the newline in front of group 1 of the match that begins
\* at position i
TaskUpdateNewline(r, i) == MaxOf(LessonNewlines(r, AfterTaskUpdateWord(r, i)))

\* the position of the '\n--' that ends the match whose group begins after
\* the newline at position m
TaskUpdateEnd(r, m) == MinOf(Occurrences(r, LESSON_END, m + 1))

RECURSIVE TaskUpdateMatches(_, _)
\* re.findall(task_update_pattern, response, re.DOTALL) from position from
\* on: the groups of the matches, which do not overlap
TaskUpdateMatches(r, from) ==
    IF TaskUpdateStarts(r, from) = {} THEN <<>>
    ELSE <<SubSeq(r, TaskUpdateNewline(r, MinOf(TaskUpdateStarts(r, from))) + 1,
                  TaskUpdateEnd(r, TaskUpdateNewline(r, MinOf(TaskUpdateStarts(r, from)))) - 1)>>
         \o TaskUpdateMatches(r,
                TaskUpdateEnd(r, TaskUpdateNewline(r, MinOf(TaskUpdateStarts(r, from))))
                    + Len(LESSON_END))

\* update_task_from_response with the groups matches found in the response
UpdateTaskWith(chat_id, response, matches) ==
    /\ dirs' = IF matches # <<>> THEN GetUserDir(dirs, chat_id) ELSE dirs
    /\ files' = IF matches # <<>>
                THEN UpdateTodoMd(files, chat_id, Join(matches, <<"\n", "\n">>),
                                  GetTaskId(session_task_ids, chat_id), TRUE, now)
                ELSE files
    /\ ret' = [op |-> "update_task_from_response", chat_id |-> chat_id,
               response |-> response, matches |-> matches, val |-> matches # <<>>]
    /\ UNCHANGED <<now, index, hashed, refs, ledgerVars, promptVars, raceVars, bridge>>

\* update_task_from_response
UpdateTaskFromResponse(chat_id, response) ==
    UpdateTaskWith(chat_id, response, TaskUpdateMatches(response, 1))

\* the goal of the tasks that are appended to: one line, recited by the
\* build that follows create_task
RecitedGoals == {<<"g", "o">>}

\* the updates appended with update_todo_md: a note, and an open checkbox
AppendedContents == {<<"p">>, <<"-", " ", "[", " ", "]", " ", "x">>}

\* responses with one block that is a note, with two blocks the first of
\* which is a heading, and with no block
TaskResponses ==
    {<<"-", "-", " ">> \o TASK_UPDATE_WORD \o <<"\n", "d", "\n", "-", "-">>,
     <<"a", "\n", "-", "-">> \o TASK_UPDATE_WORD \o <<" ", "\n", "#", " ", "n", "n", "\n", "-", "-",
       "\n", "-", "-", " ">> \o TASK_UPDATE_WORD \o <<"\n", "q", "\n", "-", "-", "b">>,
     <<"n", "o">>}

\* the appended updates of the document so far
Appended(doc) == Cardinality(Occurrences(doc, UPDATED_MARK, 1))

\* a task is created, its document is appended to both ways, texts are built
NextGoal ==
    \/ \E u \in PromptUsers, g \in RecitedGoals : CreateTask(u, g)
    \/ \E u \in DOMAIN task_goals, c \in AppendedContents :
          UpdateTodo(u, c, GetTaskId(session_task_ids, u), TRUE, TRUE)
    \/ \E u \in DOMAIN task_goals, r \in TaskResponses :
          /\ Appended(GetTaskState(files, session_task_ids, u, now)) < MaxAppends
          /\ UpdateTaskFromResponse(u, r)
    \/ \E u \in PromptUsers, x \in PromptTurns : Build(u, x)
    \/ Tick

SpecGoal == Init /\ [][NextGoal]_vars

\* C31: the goal survives task updates: after create_task(user, G) followed
\* by any sequence of append updates to the document of that task
\* (update_todo_md with append, or update_task_from_response on responses
\* with task_update blocks), every later build for the user ends with a
\* task-recitation section that contains the goal text G.
C31_GoalSurvives ==
    (/\ ret.op = "build"
     /\ ret.chat_id \in DOMAIN task_goals
     /\ Appended(GetTaskState(files, session_task_ids, ret.chat_id, now)) > 0)
        => /\ StartsWith(Sections(ret.text)[Len(Sections(ret.text))], RECITATION_TITLE)
           /\ Contains(Sections(ret.text)[Len(Sections(ret.text))],
                       task_goals[ret.chat_id])

(***************************************************************************)
(* Resolved failures and what is surfaced.                                 *)
(***************************************************************************)
\* the failures recorded ahead of mark_resolved: the actions of the two user
\* inputs that are built
ResolvedFailures ==
    {[action |-> <<"A">>, error |-> <<"E", "r">>],
     [action |-> <<"B">>, error |-> <<"E", "r">>]}

\* failures are recorded and marked resolved, the relevant ones are asked for
\* and texts are built
NextResolved ==
    \/ \E u \in LedgerUsers, f \in ResolvedFailures :
          RecordFailure(u, f.action, f.error, <<>>, <<"l">>)
    \/ \E u \in LedgerUsers, id \in FailureIds : MarkResolved(u, id, "none")
    \/ \E u \in LedgerUsers, f \in ResolvedFailures, n \in RankLimits :
          GetRelevant(u, f.action, n)
    \/ \E u \in LedgerUsers, x \in PromptTurns : Build(u, x)
    \/ Tick

SpecResolved == Init /\ [][NextResolved]_vars

\* the line of the failure-lessons section that names the action of f
ActionLine(f) == <<".", " ", "O", "P", ":", " ">> \o f.action \o <<"\n">>

\* C32: only unresolved failures are surfaced: a record that mark_resolved
\* has marked resolved is never returned by get_relevant_failures and never
\* appears in the failure-lessons section of build.
C32_OnlyUnresolved ==
    /\ ret.op = "get_relevant_failures"
          => \A i \in 1..Len(ret.val) : ~ret.val[i].resolved
    /\ ret.op = "build"
          => \A i \in 1..Len(GetUserFailures(memory, ret.chat_id, FALSE, RELEVANT_LIMIT)) :
                GetUserFailures(memory, ret.chat_id, FALSE, RELEVANT_LIMIT)[i].resolved
                    => ~Contains(ret.text,
                           ActionLine(GetUserFailures(memory, ret.chat_id, FALSE,
                                                      RELEVANT_LIMIT)[i]))

(***************************************************************************)
(* The stored form of a failure record, read back.                         *)
(***************************************************************************)
\* action and error texts: one line, two lines, and one line that holds a
\* field label of the stored form
ReadBackActions ==
    {<<"B", "u">>, <<"a", "\n", "b">>, <<"x", " ", "e", "r", "r", "o", "r", ":", " ", "y">>}

ReadBackErrors ==
    {<<"E", "r">>, <<"T", "\n", "f">>, <<"n", "o", " ", "t", "y", "p", "e", ":", " ", "t">>}

NextReadBack ==
    \/ \E u \in LedgerUsers, a \in ReadBackActions, e \in ReadBackErrors, n \in LedgerNotes :
          RecordFailure(u, a, e, n.context, n.lesson)
    \/ Tick

SpecReadBack == Init /\ [][NextReadBack]_vars

\* C33: stored failure records read back unchanged: the record that
\* record_failure has written with _format_for_storage is read back by
\* get_user_failures with the same action, error_message, error_type, lesson,
\* recurrence_count and resolved flag, for single-line and multi-line texts,
\* with or without field labels inside them.
C33_ReadBack ==
    ret.op = "record_failure"
        => /\ Reread(memory, ret.record) # {}
           /\ \A r \in Reread(memory, ret.record) :
                 /\ r.action = ret.record.action
                 /\ r.error_message = ret.record.error_message
                 /\ r.error_type = ret.record.error_type
                 /\ r.lesson = ret.record.lesson
                 /\ r.recurrence_count = ret.record.recurrence_count
                 /\ r.resolved = ret.record.resolved

(***************************************************************************)
(* The dedup lookup on a ledger longer than its window.                    *)
(***************************************************************************)
\* the failures recorded one after the other
MaxLedger == 51

\* the action of the n-th failure recorded
ActionNo(n) == <<"a">> \o DigitsOf(n)

\* the next failure not yet recorded is recorded
RecordNext(user_id) ==
    /\ TotalCalls(calls) = Len(memory)
    /\ Len(memory) < MaxLedger
    /\ RecordFailureCall(user_id, ActionNo(Len(memory) + 1), <<"E", "r">>, <<>>, <<>>)

\* the failure recorded as the k-th occurs again
RecordAgain(user_id, k) ==
    /\ TotalCalls(calls) = Len(memory)
    /\ Len(memory) <= MaxLedger
    /\ RecordFailureCall(user_id, ActionNo(k), <<"E", "r">>, <<>>, <<>>)

\* failures with different actions are recorded; then the oldest, the
\* newest or the one in the middle occurs again
NextLongLedger ==
    \/ \E u \in LedgerUsers : RecordNext(u)
    \/ \E u \in LedgerUsers, k \in {1, (Len(memory) + 1) \div 2, Len(memory)} :
          k >= 1 /\ RecordAgain(u, k)

SpecLongLedger == Init /\ [][NextLongLedger]_vars

\* the stored items of the user whose record has the signature of rec
StoredWithSignature(mem, rec) ==
    {i \in 1..Len(mem) :
        /\ mem[i].user_id = rec.user_id
        /\ Signature(ParseMemoryToRecord(mem[i]).action,
                     ParseMemoryToRecord(mem[i]).error_message)
              = Signature(rec.action, rec.error_message)}

\* C34: the dedup lookup sees the whole ledger: record_failure finds the
\* existing record of a signature whenever the ledger of the user holds one,
\* however many other records the user has, and the update replaces that
\* record instead of adding a second one.
C34_WholeLedger ==
    ret.op = "record_failure"
        => /\ Cardinality(StoredWithSignature(memory, ret.record)) = 1
           /\ ret.record.recurrence_count
                 = calls[<<ret.user_id, Signature(ret.record.action,
                                                  ret.record.error_message)>>]

(***************************************************************************)
(* The task ids create_task generates.                                     *)
(***************************************************************************)
\* C35: generated task ids never collide: two create_task calls of a user
\* without an explicit task_id return different task ids, also when both read
\* the same clock second, so that creating a task never overwrites the
\* document of an earlier task.
C35_FreshTaskIds ==
    [][(ret'.op = "create_task" /\ files' # files)
          => TodoPath(ret'.chat_id, ret'.val) \notin DOMAIN files]_vars

\* the messages handled, the entries of the transcript and the updates of
\* the server at most
MaxRequests == 3

MaxTranscript == 3

(***************************************************************************)
(* The bridge: the handlers of a message and the response monitor.         *)
(***************************************************************************)
BLOCKED_COMMANDS ==
    {<<"/", "m", "c", "p">>,
     <<"/", "h", "e", "l", "p">>,
     <<"/", "s", "e", "t", "t", "i", "n", "g", "s">>,
     <<"/", "c", "o", "n", "f", "i", "g">>,
     <<"/", "m", "o", "d", "e", "l">>,
     <<"/", "c", "o", "m", "p", "a", "c", "t">>,
     <<"/", "c", "o", "s", "t">>,
     <<"/", "d", "o", "c", "t", "o", "r">>,
     <<"/", "i", "n", "i", "t">>,
     <<"/", "l", "o", "g", "i", "n">>,
     <<"/", "l", "o", "g", "o", "u", "t">>,
     <<"/", "m", "e", "m", "o", "r", "y">>,
     <<"/", "p", "e", "r", "m", "i", "s", "s", "i", "o", "n", "s">>,
     <<"/", "p", "r">>,
     <<"/", "r", "e", "v", "i", "e", "w">>,
     <<"/", "t", "e", "r", "m", "i", "n", "a", "l">>,
     <<"/", "v", "i", "m">>,
     <<"/", "a", "p", "p", "r", "o", "v", "e", "d", "-", "t", "o", "o", "l", "s">>,
     <<"/", "l", "i", "s", "t", "e", "n">>}

TMUX_SESSION == <<"c", "l", "a", "u", "d", "e">>

\* the keys tmux_send_enter and tmux_send_escape send
ENTER == <<"Enter">>

ESCAPE == <<"Escape">>

\* find_latest_transcript: the one transcript of the session, once it has a
\* line
TRANSCRIPT == <<"transcript">>

FindLatestTranscript(b) == IF b.transcript = <<>> THEN None ELSE TRANSCRIPT

RECURSIVE TokenRun(_, _)
\* the number of characters other than whitespace of s from position p on
TokenRun(s, p) == IF p > Len(s) \/ IsSpace(s[p]) THEN 0 ELSE 1 + TokenRun(s, p + 1)

\* text.split()[0] of a text with a token
FirstToken(s) == SubSeq(s, WsRun(s, 1) + 1, WsRun(s, 1) + TokenRun(s, WsRun(s, 1) + 1))

\* text.split(maxsplit=1): the first token and, when something other than
\* whitespace follows it, the rest of the text from there on
SplitOnce(s) ==
    LET e == WsRun(s, 1) + TokenRun(s, WsRun(s, 1) + 1)
        r == e + WsRun(s, e + 1)
    IN IF r >= Len(s) THEN <<FirstToken(s)>>
       ELSE <<FirstToken(s), SubSeq(s, r + 1, Len(s))>>

RECURSIVE EscapeQuotes(_)
\* prompt.replace('"', '\\"')
EscapeQuotes(s) ==
    IF s = <<>> THEN <<>>
    ELSE (IF s[1] = "\"" THEN <<"\\", "\"">> ELSE <<s[1]>>) \o EscapeQuotes(Tail(s))

\* what a handler has done: the bridge after it, the keys sent to the
\* session, the replies sent to the chat, and whether a command was handled
Done(b, keys, replies) ==
    [bridge |-> b, keys |-> keys, replies |-> replies, handled |-> TRUE]

Reply(chat_id, text) == [chat_id |-> chat_id, text |-> text]

\* the pending file is written and a typing thread is started
Pending(b) ==
    [b EXCEPT !.pending = TRUE, !.requested_at = Len(b.transcript),
              !.typing.check = @ + 1]

\* handle_regular_message
HandleRegularMessage(b, text, chat_id, msg_id) ==
    IF ~b.tmux
    THEN Done([b EXCEPT !.pending = FALSE, !.requested_at = Len(b.transcript)],
              <<>>, <<Reply(chat_id, <<"t", "m", "u", "x", " ", "n", "o", "t", " ", "f", "o", "u", "n", "d">>)>>)
    ELSE Done(Pending(b), <<text, ENTER>>, <<>>)

\* handle_command; sessions is the result of get_recent_sessions, the
\* keyboard of the session picker is left out of its reply
HandleCommand(b, cmd, text, chat_id, msg_id, sessions) ==
    IF cmd = <<"/", "s", "t", "a", "t", "u", "s">>
    THEN Done(b, <<>>,
              <<Reply(chat_id, <<"t", "m", "u", "x", " ", "'">> \o TMUX_SESSION \o <<"'", ":", " ">>
                    \o (IF b.tmux THEN <<"r", "u", "n", "n", "i", "n", "g">> ELSE <<"n", "o", "t", " ", "f", "o", "u", "n", "d">>))>>)
    ELSE IF cmd = <<"/", "s", "t", "o", "p">>
    THEN Done([b EXCEPT !.pending = FALSE],
              IF b.tmux THEN <<ESCAPE>> ELSE <<>>,
              <<Reply(chat_id, <<"I", "n", "t", "e", "r", "r", "u", "p", "t", "e", "d">>)>>)
    ELSE IF cmd = <<"/", "c", "l", "e", "a", "r">>
    THEN IF ~b.tmux THEN Done(b, <<>>, <<Reply(chat_id, <<"t", "m", "u", "x", " ", "n", "o", "t", " ", "f", "o", "u", "n", "d">>)>>)
         ELSE Done(b, <<ESCAPE, <<"/", "c", "l", "e", "a", "r">>, ENTER>>, <<Reply(chat_id, <<"C", "l", "e", "a", "r", "e", "d">>)>>)
    ELSE IF cmd = <<"/", "c", "o", "n", "t", "i", "n", "u", "e", "_">>
    THEN IF ~b.tmux THEN Done(b, <<>>, <<Reply(chat_id, <<"t", "m", "u", "x", " ", "n", "o", "t", " ", "f", "o", "u", "n", "d">>)>>)
         ELSE Done(b, <<ESCAPE, <<"/", "e", "x", "i", "t">>, ENTER,
                        <<"c", "l", "a", "u", "d", "e", " ", "-", "-", "c", "o", "n", "t", "i", "n", "u", "e", " ", "-", "-", "d", "a", "n", "g", "e", "r", "o", "u", "s", "l", "y", "-", "s", "k", "i", "p", "-", "p", "e", "r", "m", "i", "s", "s", "i", "o", "n", "s">>,
                        ENTER>>,
                   <<Reply(chat_id, <<"C", "o", "n", "t", "i", "n", "u", "i", "n", "g", ".", ".", ".">>)>>)
    ELSE IF cmd = <<"/", "l", "o", "o", "p">>
    THEN IF ~b.tmux THEN Done(b, <<>>, <<Reply(chat_id, <<"t", "m", "u", "x", " ", "n", "o", "t", " ", "f", "o", "u", "n", "d">>)>>)
         ELSE IF Len(SplitOnce(text)) < 2
         THEN Done(b, <<>>, <<Reply(chat_id, <<"U", "s", "a", "g", "e", ":", " ", "/", "l", "o", "o", "p", " ", "<", "p", "r", "o", "m", "p", "t", ">">>)>>)
         ELSE Done(Pending(b),
                   <<<<"/", "r", "a", "l", "p", "h", "-", "l", "o", "o", "p", ":", "r", "a", "l", "p", "h", "-", "l", "o", "o", "p", " ", "\"">>
                     \o EscapeQuotes(SplitOnce(text)[2])
                     \o <<" ", "O", "u", "t", "p", "u", "t", " ", "<", "p", "r", "o", "m", "i", "s", "e", ">", "D", "O", "N", "E", "<", "/", "p", "r", "o", "m", "i", "s", "e", ">", " ", "w", "h", "e", "n", " ", "c", "o", "m", "p", "l", "e", "t", "e", ".">>
                     \o <<"\"", " ", "-", "-", "m", "a", "x", "-", "i", "t", "e", "r", "a", "t", "i", "o", "n", "s", " ", "5", " ", "-", "-", "c", "o", "m", "p", "l", "e", "t", "i", "o", "n", "-", "p", "r", "o", "m", "i", "s", "e", " ", "\"", "D", "O", "N", "E", "\"">>,
                     ENTER>>,
                   <<Reply(chat_id, <<"R", "a", "l", "p", "h", " ", "L", "o", "o", "p", " ", "s", "t", "a", "r", "t", "e", "d", " ", "(", "m", "a", "x", " ", "5", " ", "i", "t", "e", "r", "a", "t", "i", "o", "n", "s", ")">>)>>)
    ELSE IF cmd = <<"/", "r", "e", "s", "u", "m", "e">>
    THEN Done(b, <<>>,
              <<Reply(chat_id, IF sessions = <<>> THEN <<"N", "o", " ", "s", "e", "s", "s", "i", "o", "n", "s">>
                               ELSE <<"S", "e", "l", "e", "c", "t", " ", "s", "e", "s", "s", "i", "o", "n", ":">>)>>)
    ELSE IF cmd \in BLOCKED_COMMANDS
    THEN Done(b, <<>>,
              <<Reply(chat_id, <<"'">> \o cmd
                    \o <<"'", " ", "n", "o", "t", " ", "s", "u", "p", "p", "o", "r", "t", "e", "d", " ", "(", "i", "n", "t", "e", "r", "a", "c", "t", "i", "v", "e", ")">>)>>)
    ELSE [bridge |-> b, keys |-> <<>>, replies |-> <<>>, handled |-> FALSE]

\* handle_message; a message is its text, the id of its chat (0 when it has
\* none) and its message id
HandleMessageOf(b, msg, sessions) ==
    IF msg.text = <<>> \/ msg.chat_id = 0
    THEN [bridge |-> b, keys |-> <<>>, replies |-> <<>>, handled |-> FALSE]
    ELSE IF StartsWith(msg.text, <<"/">>)
            /\ HandleCommand([b EXCEPT !.chat_id_file = msg.chat_id],
                             Lower(FirstToken(msg.text)), msg.text, msg.chat_id,
                             msg.message_id, sessions).handled
    THEN HandleCommand([b EXCEPT !.chat_id_file = msg.chat_id],
                       Lower(FirstToken(msg.text)), msg.text, msg.chat_id,
                       msg.message_id, sessions)
    ELSE HandleRegularMessage([b EXCEPT !.chat_id_file = msg.chat_id],
                              msg.text, msg.chat_id, msg.message_id)

RECURSIVE BlockTexts(_)
\* the texts of the blocks of type text of the content of a message
BlockTexts(content) ==
    IF content = <<>> THEN <<>>
    ELSE (IF content[1].type = "text" THEN <<content[1].text>> ELSE <<>>)
         \o BlockTexts(Tail(content))

\* len(line) of the line of an entry of the transcript: its texts, and the
\* json around them and the newline taken as one character
LineLen(e) == Len(Join(BlockTexts(e.content), <<>>)) + 1

RECURSIVE PosAfter(_, _)
\* current_pos after the k-th line of the transcript
PosAfter(t, k) == IF k = 0 THEN 0 ELSE PosAfter(t, k - 1) + LineLen(t[k])

\* the lines extract_assistant_responses does not skip and takes texts from
ExtractedEntries(t, last_response_pos) ==
    {k \in 1..Len(t) : /\ PosAfter(t, k) > last_response_pos
                       /\ t[k].type = "assistant"
                       /\ BlockTexts(t[k].content) # <<>>}

RECURSIVE ResponsesFrom(_, _, _)
\* the list responses of extract_assistant_responses from the k-th line on
ResponsesFrom(t, k, last_response_pos) ==
    IF k > Len(t) THEN <<>>
    ELSE (IF k \in ExtractedEntries(t, last_response_pos)
          THEN BlockTexts(t[k].content) ELSE <<>>)
         \o ResponsesFrom(t, k + 1, last_response_pos)

\* extract_assistant_responses on a transcript that exists
ExtractAssistantResponses(t, last_response_pos) ==
    [responses |-> Strip(Join(ResponsesFrom(t, 1, last_response_pos), <<"\n", "\n">>)),
     new_position |-> PosAfter(t, Len(t))]

\* the monitor with the position reset when the transcript changed
TranscriptOf(b) ==
    IF b.last_transcript_path # FindLatestTranscript(b)
    THEN [b EXCEPT !.last_transcript_path = FindLatestTranscript(b),
                   !.last_position = 0]
    ELSE b

\* the response is sent, the pending file removed and the position advanced
Relay(b, new_position) ==
    [b EXCEPT !.pending = FALSE, !.last_position = new_position,
              !.relays = [k \in DOMAIN b.relays |->
                            IF k \in ExtractedEntries(b.transcript, b.last_position)
                            THEN b.relays[k] + 1 ELSE b.relays[k]]]

\* _check_for_responses: the bridge after it, the replies sent to the chat
\* and the entries of the transcript they were taken from
CheckForResponses(b) ==
    IF ~b.pending
    THEN [bridge |-> [b EXCEPT !.last_transcript_path = None, !.last_position = 0],
          replies |-> <<>>, sent |-> {}]
    ELSE IF FindLatestTranscript(b) = None
    THEN [bridge |-> b, replies |-> <<>>, sent |-> {}]
    ELSE IF /\ ExtractAssistantResponses(b.transcript, TranscriptOf(b).last_position).responses # <<>>
            /\ ExtractAssistantResponses(b.transcript, TranscriptOf(b).last_position).new_position
                  > TranscriptOf(b).last_position
            /\ b.chat_id_file # 0
    THEN [bridge |-> Relay(TranscriptOf(b), PosAfter(b.transcript, Len(b.transcript))),
          replies |-> <<Reply(b.chat_id_file,
                              ExtractAssistantResponses(b.transcript,
                                  TranscriptOf(b).last_position).responses)>>,
          sent |-> ExtractedEntries(b.transcript, TranscriptOf(b).last_position)]
    ELSE [bridge |-> TranscriptOf(b), replies |-> <<>>, sent |-> {}]

\* one pass of _monitor_loop
MonitorCheck ==
    /\ bridge' = CheckForResponses(bridge).bridge
    /\ ret' = [op |-> "check_for_responses",
               replies |-> CheckForResponses(bridge).replies,
               sent |-> CheckForResponses(bridge).sent,
               requested_at |-> bridge.requested_at,
               was_pending |-> bridge.pending]
    /\ UNCHANGED <<now, storeVars, ledgerVars, promptVars, raceVars>>

\* handle_message on a message that has arrived
HandleMessage(msg, sessions) ==
    /\ bridge.requests < MaxRequests
    /\ bridge' = [HandleMessageOf(bridge, msg, sessions).bridge EXCEPT !.requests = @ + 1]
    /\ ret' = [op |-> "handle_message", msg |-> msg, tmux |-> bridge.tmux,
               was_pending |-> bridge.pending,
               threads |-> bridge.typing.check + bridge.typing.sleep,
               keys |-> HandleMessageOf(bridge, msg, sessions).keys,
               replies |-> HandleMessageOf(bridge, msg, sessions).replies]
    /\ UNCHANGED <<now, storeVars, ledgerVars, promptVars, raceVars>>

\* the session writes an entry to its transcript
AppendEntry(e) ==
    /\ Len(bridge.transcript) < MaxTranscript
    /\ bridge' = [bridge EXCEPT !.transcript = Append(@, e), !.relays = Append(@, 0)]
    /\ UNCHANGED <<now, storeVars, ledgerVars, promptVars, raceVars, ret>>

\* the terminal session is started, or ends
TmuxSession(exists) ==
    /\ bridge.tmux # exists
    /\ bridge' = [bridge EXCEPT !.tmux = exists]
    /\ UNCHANGED <<now, storeVars, ledgerVars, promptVars, raceVars, ret>>

\* an answer of the assistant, a question of the user, and an entry of the
\* assistant without text
MonitorEntries ==
    {[type |-> "assistant", content |-> <<[type |-> "text", text |-> <<"a">>]>>],
     [type |-> "user", content |-> <<[type |-> "text", text |-> <<"q">>]>>],
     [type |-> "assistant", content |-> <<[type |-> "tool_use", text |-> <<>>]>>]}

\* a regular message and the command that interrupts
MonitorMessages ==
    {[text |-> <<"h", "i">>, chat_id |-> 1, message_id |-> 1],
     [text |-> <<"/", "s", "t", "o", "p">>, chat_id |-> 1, message_id |-> 1]}

NextMonitor ==
    \/ \E m \in MonitorMessages : HandleMessage(m, <<>>)
    \/ \E e \in MonitorEntries : AppendEntry(e)
    \/ MonitorCheck
    \/ \E x \in BOOLEAN : TmuxSession(x)

SpecMonitor == Init /\ [][NextMonitor]_vars

\* C36: each assistant response is relayed at most once: over any sequence
\* of incoming requests, assistant entries appended to the transcript and
\* monitor checks, the monitor sends every assistant text entry of the
\* transcript to the chat at most once, for a request it sends only entries
\* appended after that request was marked pending, and it clears the pending
\* flag only after such a send.
C36_RelayedOnce ==
    /\ \A k \in DOMAIN bridge.relays : bridge.relays[k] <= 1
    /\ ret.op = "check_for_responses"
          => /\ \A k \in ret.sent : k > ret.requested_at
             /\ (ret.was_pending /\ ~bridge.pending) => ret.sent # {}

(***************************************************************************)
(* The bridge in polling mode.                                             *)
(***************************************************************************)
MaxUpdates == 3

MaxHandled == 4

\* load_offset
LoadOffset(b) == b.offset_file

RECURSIVE NotBefore(_, _)
\* the updates of the queue with an id of at least offset
NotBefore(queue, offset) ==
    IF queue = <<>> THEN <<>>
    ELSE (IF queue[1].update_id >= offset THEN <<queue[1]>> ELSE <<>>)
         \o NotBefore(Tail(queue), offset)

\* get_updates(offset) answered by the server: with an offset it drops the
\* updates before it; the call sends no offset when it is 0
GetUpdatesOf(queue, offset) == IF offset # 0 THEN NotBefore(queue, offset) ELSE queue

\* lines 562-563: the offset is advanced and saved
Advance(b, update_id) ==
    [b EXCEPT !.offset = update_id + 1, !.offset_file = update_id + 1]

\* the update has gone through lines 554-560; it leaves the batch
Handled(b, update) ==
    [b EXCEPT !.handled = Append(@, update.update_id), !.batch = Tail(@)]

\* PollingHandler() and poll_updates begin
StartPolling ==
    /\ ~bridge.running
    /\ bridge' = [bridge EXCEPT !.running = TRUE, !.offset = LoadOffset(bridge),
                                !.batch = <<>>]
    /\ ret' = [op |-> "start", offset |-> LoadOffset(bridge)]
    /\ UNCHANGED <<now, storeVars, ledgerVars, promptVars, raceVars>>

\* a message reaches the server
Arrive(msg) ==
    /\ bridge.last_update_id < MaxUpdates
    /\ bridge' = [bridge EXCEPT
                    !.last_update_id = @ + 1,
                    !.queue = Append(@, [update_id |-> bridge.last_update_id + 1,
                                         message |-> msg])]
    /\ UNCHANGED <<now, storeVars, ledgerVars, promptVars, raceVars, ret>>

\* lines 543-550: a batch is fetched
GetUpdates ==
    /\ bridge.running
    /\ bridge.batch = <<>>
    /\ GetUpdatesOf(bridge.queue, bridge.offset) # <<>>
    /\ bridge' = [bridge EXCEPT !.queue = GetUpdatesOf(bridge.queue, bridge.offset),
                                !.batch = GetUpdatesOf(bridge.queue, bridge.offset)]
    /\ ret' = [op |-> "get_updates", offset |-> bridge.offset,
               updates |-> GetUpdatesOf(bridge.queue, bridge.offset)]
    /\ UNCHANGED <<now, storeVars, ledgerVars, promptVars, raceVars>>

\* lines 551-563 for the next update of the batch.  outcome is how
\* handle_message ends: it returns, it raises an Exception, or a
\* KeyboardInterrupt is raised in it; effects tells whether it raised at its
\* end or at its beginning.  The KeyboardInterrupt leaves the loop at line
\* 570 and the process ends.
HandleUpdate(outcome, effects) ==
    /\ bridge.running
    /\ bridge.batch # <<>>
    /\ Len(bridge.handled) < MaxHandled
    /\ outcome = "ok" => effects
    /\ LET update == Head(bridge.batch)
           b == IF effects
                THEN HandleMessageOf(bridge, update.message, <<>>).bridge
                ELSE bridge
       IN /\ bridge' = IF outcome = "KeyboardInterrupt"
                       THEN [Handled(b, update) EXCEPT !.running = FALSE, !.batch = <<>>]
                       ELSE Advance(Handled(b, update), update.update_id)
          /\ ret' = [op |-> "handle_update", update_id |-> update.update_id,
                     outcome |-> outcome, effects |-> effects,
                     keys |-> IF effects
                              THEN HandleMessageOf(bridge, update.message, <<>>).keys
                              ELSE <<>>]
    /\ UNCHANGED <<now, storeVars, ledgerVars, promptVars, raceVars>>

\* a KeyboardInterrupt while get_updates waits: the loop is left at line 570
StopPolling ==
    /\ bridge.running
    /\ bridge.batch = <<>>
    /\ bridge' = [bridge EXCEPT !.running = FALSE]
    /\ ret' = [op |-> "stop"]
    /\ UNCHANGED <<now, storeVars, ledgerVars, promptVars, raceVars>>

Outcomes == {"ok", "Exception", "KeyboardInterrupt"}

\* a regular message and a command that changes nothing
PolledMessages ==
    {[text |-> <<"h", "i">>, chat_id |-> 1, message_id |-> 1],
     [text |-> <<"/", "s", "t", "a", "t", "u", "s">>, chat_id |-> 1, message_id |-> 1]}

NextPolling ==
    \/ StartPolling
    \/ \E m \in PolledMessages : Arrive(m)
    \/ GetUpdates
    \/ \E o \in Outcomes, e \in BOOLEAN : HandleUpdate(o, e)
    \/ StopPolling
    \/ \E x \in BOOLEAN : TmuxSession(x)

SpecPolling == Init /\ [][NextPolling]_vars

\* C37: polling processes each update once: every update of a fetched batch
\* is handled exactly once and in batch order; after an update with id u has
\* been handled, whether or not its handler raised, the in-memory and the
\* persisted offset both equal u + 1, so that the update is not requested or
\* handled again, also after a restart that reloads the persisted offset.
C37_HandledOnce ==
    /\ \A i, j \in DOMAIN bridge.handled :
          i < j => bridge.handled[i] < bridge.handled[j]
    /\ ret.op = "handle_update"
          => /\ bridge.offset = ret.update_id + 1
             /\ bridge.offset_file = ret.update_id + 1
    /\ ret.op = "get_updates"
          => \A k \in DOMAIN ret.updates :
                \A i \in DOMAIN bridge.handled :
                   bridge.handled[i] # ret.updates[k].update_id

(***************************************************************************)
(* The commands the bridge does not pass on.                               *)
(***************************************************************************)
\* a regular message, blocked commands in lower and upper case, with an
\* argument and behind a leading space, the commands of the bridge, and a
\* command it does not know
CommandMessages ==
    {[text |-> <<"h", "i">>, chat_id |-> 1, message_id |-> 1],
     [text |-> <<"/", "m", "c", "p">>, chat_id |-> 1, message_id |-> 1],
     [text |-> <<"/", "M", "C", "P", " ", "x">>, chat_id |-> 1, message_id |-> 1],
     [text |-> <<" ", "/", "m", "c", "p">>, chat_id |-> 1, message_id |-> 1],
     [text |-> <<"/", "a", "p", "p", "r", "o", "v", "e", "d", "-", "t", "o", "o", "l", "s">>, chat_id |-> 1, message_id |-> 1],
     [text |-> <<"/", "s", "t", "o", "p">>, chat_id |-> 1, message_id |-> 1],
     [text |-> <<"/", "s", "t", "a", "t", "u", "s">>, chat_id |-> 1, message_id |-> 1],
     [text |-> <<"/", "c", "l", "e", "a", "r">>, chat_id |-> 1, message_id |-> 1],
     [text |-> <<"/", "l", "o", "o", "p", " ", "p">>, chat_id |-> 1, message_id |-> 1],
     [text |-> <<"/", "l", "o", "o", "p">>, chat_id |-> 1, message_id |-> 1],
     [text |-> <<"/", "r", "e", "s", "u", "m", "e">>, chat_id |-> 1, message_id |-> 1],
     [text |-> <<"/", "c", "o", "n", "t", "i", "n", "u", "e", "_">>, chat_id |-> 1, message_id |-> 1],
     [text |-> <<"/", "x">>, chat_id |-> 1, message_id |-> 1]}

\* the results of get_recent_sessions: no session, and one
CommandSessions == {<<>>, <<"s">>}

NextCommands ==
    \/ \E m \in CommandMessages, s \in CommandSessions : HandleMessage(m, s)
    \/ \E x \in BOOLEAN : TmuxSession(x)

SpecCommands == Init /\ [][NextCommands]_vars

\* C38: blocked commands never reach the session: for a message whose first
\* whitespace-separated token, lowercased, is in BLOCKED_COMMANDS,
\* handle_message forwards nothing to the terminal session, does not set the
\* pending flag, and replies that the command is not supported, whether or
\* not the terminal session exists.
C38_BlockedNotForwarded ==
    (/\ ret.op = "handle_message"
     /\ Lower(FirstToken(ret.msg.text)) \in BLOCKED_COMMANDS)
        => /\ ret.keys = <<>>
           /\ bridge.pending = ret.was_pending
           /\ ret.replies
                 = <<Reply(ret.msg.chat_id,
                           <<"'">> \o Lower(FirstToken(ret.msg.text))
                              \o <<"'", " ", "n", "o", "t", " ", "s", "u", "p", "p", "o", "r", "t", "e", "d", " ", "(", "i", "n", "t", "e", "r", "a", "c", "t", "i", "v", "e", ")">>)>>

(***************************************************************************)
(* The typing threads.                                                     *)
(***************************************************************************)
\* the loop with a condition that never fails
TypingForever(b) == TRUE

\* the condition of the loop of send_typing_loop
TypingContinues(b) == b.pending

\* line 69 and line 70: a thread tests the condition of its loop; it sends
\* the typing action and goes to sleep, or it ends
TypingCheck ==
    /\ bridge.typing.check > 0
    /\ bridge' = IF TypingContinues(bridge)
                 THEN [bridge EXCEPT !.typing.check = @ - 1, !.typing.sleep = @ + 1]
                 ELSE [bridge EXCEPT !.typing.check = @ - 1]
    /\ ret' = [op |-> "send_typing_loop", ended |-> ~TypingContinues(bridge),
               pending |-> bridge.pending]
    /\ UNCHANGED <<now, storeVars, ledgerVars, promptVars, raceVars>>

\* line 71: the sleep of a thread ends
TypingWake ==
    /\ bridge.typing.sleep > 0
    /\ bridge' = [bridge EXCEPT !.typing.sleep = @ - 1, !.typing.check = @ + 1]
    /\ UNCHANGED <<now, storeVars, ledgerVars, promptVars, raceVars, ret>>

\* the typing threads alive
TypingThreads(b) == b.typing.check + b.typing.sleep

\* a request and the command that interrupts
TypingMessages ==
    {[text |-> <<"h", "i">>, chat_id |-> 1, message_id |-> 1],
     [text |-> <<"/", "s", "t", "o", "p">>, chat_id |-> 1, message_id |-> 1]}

TypingEntries ==
    {[type |-> "assistant", content |-> <<[type |-> "text", text |-> <<"a">>]>>]}

NextTyping ==
    \/ \E m \in TypingMessages : HandleMessage(m, <<>>)
    \/ \E e \in TypingEntries : AppendEntry(e)
    \/ MonitorCheck
    \/ \E x \in BOOLEAN : TmuxSession(x)
    \/ TypingCheck
    \/ TypingWake

\* the threads are daemon threads the interpreter keeps scheduling: the
\* sleep of four seconds ends, and the call that sends the typing action
\* returns within its timeout
SpecTyping ==
    Init /\ [][NextTyping]_vars /\ WF_vars(TypingCheck) /\ WF_vars(TypingWake)

====
